---- MODULE Spec2Model ----
\* Inventory ledger: entries (table inventories), history records (table
\* inventory_histories), the six write operations of InventoryService and
\* RecalculateForward of InventoryRepository.
\*
\* A partition is (organization_id, item_id).  The model keeps one item, so a
\* partition is named by its organization.  An entry's id is its position in
\* the store; uuid.New() / gen_random_uuid() give values never used before,
\* which the next free position is.  time.Now() is a clock that advances at
\* every read, so created_at values are distinct.
EXTENDS Integers, Sequences, FiniteSets, TLC

\* ---------------------------------------------------------------- bounds
\* number of requests served in one explored run
MaxOps == 3

\* the sampled inputs
Orgs == {1, 2}
Dates == {1, 2}
Amounts == {-1, 1}
PhysQtys == {2}
Quantities == {1}
\* (type, amount) of the create requests
CreateInputs == {<<"stok_awal", 1>>, <<"penerimaan", 1>>, <<"pemakaian", -1>>}

\* entries, history: the two tables.  ops: the log of the requests served one
\* at a time.  tx, base: the store transactions of the concurrent request
\* handlers and the committed entries they started from.
VARIABLES entries, history, ops, tx, base

vars == <<entries, history, ops, tx, base>>

\* ------------------------------------------------------- optional values
\* A Go pointer field / nullable column: Nil, or Ptr(v).
Nil == <<>>
Ptr(v) == <<v>>
Deref(p) == p[1]

\* ------------------------------------------------------------ the tables
NewInventory(id, org, date, amount, balance, type, ref, from, to, phys, sys, diff, now) ==
  [id |-> id, org |-> org, txn_date |-> date, amount |-> amount,
   balance |-> balance, type |-> type, ref_id |-> ref,
   from_org |-> from, to_org |-> to,
   physical_qty |-> phys, system_qty |-> sys, difference |-> diff,
   created_at |-> now, deleted |-> FALSE]

SnapshotItem(inv) ==
  [inventory_id |-> inv.id, txn_date |-> inv.txn_date, amount |-> inv.amount,
   balance |-> inv.balance, type |-> inv.type, ref_id |-> inv.ref_id]

\* "txn_date ASC, created_at ASC"
Before(a, b) ==
  \/ a.txn_date < b.txn_date
  \/ a.txn_date = b.txn_date /\ a.created_at < b.created_at

\* ORDER BY txn_date ASC, created_at ASC over the rows X of S
OrderAsc(S, X) ==
  [k \in 1..Cardinality(X) |->
     CHOOSE i \in X : Cardinality({j \in X : Before(S[j], S[i])}) = k - 1]

\* ORDER BY txn_date DESC, created_at DESC ... First / Limit(1)
Latest(S, X) == CHOOSE i \in X : \A j \in X : j = i \/ Before(S[j], S[i])

\* organization_id = ? AND item_id = ? AND deleted_at IS NULL
Live(S, org) == {i \in DOMAIN S : S[i].org = org /\ ~S[i].deleted}

\* LiveTail with a slip: txn_date > ? in place of txn_date >= ?
LiveTail_After(S, org, from) == {i \in Live(S, org) : S[i].txn_date > from}

\* ... AND txn_date >= ? AND deleted_at IS NULL
LiveTail(S, org, from) == {i \in Live(S, org) : S[i].txn_date >= from}

\* Unscoped ... AND txn_date >= ? AND deleted_at IS NOT NULL
DeletedTail(S, org, from) ==
  {i \in DOMAIN S : S[i].org = org /\ S[i].deleted /\ S[i].txn_date >= from}

GetCurrentBalance(S, org) ==
  LET X == Live(S, org)
  IN IF X = {} THEN 0 ELSE S[Latest(S, X)].balance

\* GetBalanceAt with a slip: the filter deleted_at IS NULL is missing.
GetBalanceAt_Unscoped(S, org, at) ==
  LET X == {i \in DOMAIN S : S[i].org = org /\ S[i].txn_date <= at}
  IN IF X = {} THEN 0 ELSE S[Latest(S, X)].balance

GetBalanceAt(S, org, at) ==
  LET X == {i \in Live(S, org) : S[i].txn_date <= at}
  IN IF X = {} THEN 0 ELSE S[Latest(S, X)].balance

getBalanceBeforeDate(S, org, date, excludeID) ==
  LET X == {i \in Live(S, org) : S[i].txn_date < date /\ i # excludeID}
  IN IF X = {} THEN 0 ELSE S[Latest(S, X)].balance

\* checkFirstStockExists with a slip: soft-deleted rows are counted too.
checkFirstStockExists_Unscoped(S, org) ==
  \E i \in DOMAIN S : S[i].org = org /\ S[i].type = "stok_awal"

checkFirstStockExists(S, org) ==
  \E i \in Live(S, org) : S[i].type = "stok_awal"

\* isValidTransactionType with a slip: every entry type of the model passes.
isValidTransactionType_AnyType(t) ==
  t \in {"stok_awal", "penerimaan", "pemakaian", "mutation", "opname"}

isValidTransactionType(t) == t \in {"stok_awal", "penerimaan", "pemakaian"}

\* tx.Create(&inventory): the row gets the next id
Insert(S, inv) == Append(S, inv)

\* existing.DeletedAt = now; tx.Save(&existing)
SoftDelete(S, id) == [S EXCEPT ![id].deleted = TRUE]

\* tx.Save(&inv) for every row of the batch
SaveAll(S, batch) ==
  [i \in DOMAIN S |->
     IF \E k \in DOMAIN batch : batch[k].id = i
     THEN batch[CHOOSE k \in DOMAIN batch : batch[k].id = i]
     ELSE S[i]]

\* ------------------------------------------------- forward recalculation
\* RecalcBatch with a slip: a count entry's amount is not re-derived from the
\* recomputed difference.
RECURSIVE RecalcBatch_KeepsAmount(_, _, _)
RecalcBatch_KeepsAmount(S, tail, currentBalance) ==
  IF tail = <<>> THEN <<>>
  ELSE
    LET inv == S[Head(tail)]
    IN IF inv.type = "opname"
       THEN LET systemQty == currentBalance
                physicalQty == IF inv.physical_qty # Nil
                               THEN Deref(inv.physical_qty)
                               ELSE inv.balance
                difference == physicalQty - systemQty
                upd == [inv EXCEPT !.balance = physicalQty,
                                   !.system_qty = Ptr(systemQty),
                                   !.physical_qty = Ptr(physicalQty),
                                   !.difference = Ptr(difference)]
            IN <<upd>> \o RecalcBatch_KeepsAmount(S, Tail(tail), physicalQty)
       ELSE LET newBalance == currentBalance + inv.amount
                upd == [inv EXCEPT !.balance = newBalance]
            IN (IF inv.balance # newBalance THEN <<upd>> ELSE <<>>)
                 \o RecalcBatch_KeepsAmount(S, Tail(tail), newBalance)


\* RecalcBatch with a slip: a count entry does not reset the running balance;
\* it is carried on as for a delta entry.
RECURSIVE RecalcBatch_NoReset(_, _, _)
RecalcBatch_NoReset(S, tail, currentBalance) ==
  IF tail = <<>> THEN <<>>
  ELSE
    LET inv == S[Head(tail)]
        newBalance == currentBalance + inv.amount
        upd == [inv EXCEPT !.balance = newBalance]
    IN (IF inv.balance # newBalance THEN <<upd>> ELSE <<>>)
         \o RecalcBatch_NoReset(S, Tail(tail), newBalance)

\* The loop of RecalculateForward over the ordered tail: the rows it puts in
\* batchUpdates, with their new field values.
RECURSIVE RecalcBatch(_, _, _)
RecalcBatch(S, tail, currentBalance) ==
  IF tail = <<>> THEN <<>>
  ELSE
    LET inv == S[Head(tail)]
    IN IF inv.type = "opname"
       THEN LET systemQty == currentBalance
                physicalQty == IF inv.physical_qty # Nil
                               THEN Deref(inv.physical_qty)
                               ELSE inv.balance
                difference == physicalQty - systemQty
                upd == [inv EXCEPT !.balance = physicalQty,
                                   !.amount = difference,
                                   !.system_qty = Ptr(systemQty),
                                   !.physical_qty = Ptr(physicalQty),
                                   !.difference = Ptr(difference)]
            IN <<upd>> \o RecalcBatch(S, Tail(tail), physicalQty)
       ELSE LET newBalance == currentBalance + inv.amount
                upd == [inv EXCEPT !.balance = newBalance]
            IN (IF inv.balance # newBalance THEN <<upd>> ELSE <<>>)
                 \o RecalcBatch(S, Tail(tail), newBalance)

\* StartBalance with a slip: the balance of the latest live row of the whole
\* partition, not of the rows before fromDate.
StartBalance_Latest(S, org, fromDate) == GetCurrentBalance(S, org)

\* start balance: latest live row with txn_date < fromDate
StartBalance(S, org, fromDate) ==
  LET X == {i \in Live(S, org) : S[i].txn_date < fromDate}
  IN IF X = {} THEN 0 ELSE S[Latest(S, X)].balance

\* RecalculateForward with a slip: the query for the tail is not scoped to
\* the partition.
RecalculateForward_AllOrgs(S, org, fromDate) ==
  SaveAll(S, RecalcBatch(S, OrderAsc(S, {i \in DOMAIN S :
                                          ~S[i].deleted /\ S[i].txn_date >= fromDate}),
                         StartBalance(S, org, fromDate)))

RecalculateForward(S, org, fromDate) ==
  SaveAll(S, RecalcBatch(S, OrderAsc(S, LiveTail(S, org, fromDate)),
                         StartBalance(S, org, fromDate)))

\* ---------------------------------------------------------------- history
Snapshot(S, X) ==
  LET o == OrderAsc(S, X)
  IN [k \in DOMAIN o |-> SnapshotItem(S[o[k]])]

\* createHistory with a slip: the record is written over the latest record
\* of the table instead of being appended.
createHistory_Overwrites(H, S, inv, action) ==
  LET snap == Snapshot(S, LiveTail(S, inv.org, inv.txn_date))
      isBefore == action \in {"UPDATE_BEFORE", "DELETE_BEFORE"}
      id == IF H = <<>> THEN 1 ELSE Len(H)
      rec == [id |-> id, org |-> inv.org, trigger |-> inv.id,
              snapshot_from_date |-> inv.txn_date, action |-> action,
              data_before |-> IF isBefore THEN Ptr(snap) ELSE Nil,
              data_after |-> IF isBefore THEN Nil ELSE Ptr(snap)]
  IN IF H = <<>> THEN <<rec>> ELSE [H EXCEPT ![id] = rec]

createHistory(H, S, inv, action) ==
  LET snap == Snapshot(S, LiveTail(S, inv.org, inv.txn_date))
      isBefore == action \in {"UPDATE_BEFORE", "DELETE_BEFORE"}
  IN Append(H, [id |-> Len(H) + 1, org |-> inv.org, trigger |-> inv.id,
                snapshot_from_date |-> inv.txn_date, action |-> action,
                data_before |-> IF isBefore THEN Ptr(snap) ELSE Nil,
                data_after |-> IF isBefore THEN Nil ELSE Ptr(snap)])

\* --------------------------------------------------- results of a write
\* ret: the *models.Inventory the function hands back, if it hands one back
Ok(S, H, inv) ==
  [ok |-> TRUE, err |-> "", entries |-> S, history |-> H, inv |-> inv, ret |-> Nil]
\* "return inventory, err": the struct as the function built it; the rows
\* RecalculateForward saves are other structs, loaded by its own query
Returns(S, H, inventory) ==
  [ok |-> TRUE, err |-> "", entries |-> S, history |-> H, inv |-> inventory.id,
   ret |-> Ptr(inventory)]
\* an error returned from the transaction function: nothing is committed
Fail(S, H, e) ==
  [ok |-> FALSE, err |-> e, entries |-> S, history |-> H, inv |-> 0, ret |-> Nil]


\* ------------------------------------------------------ CreateTransaction
\* CreateTransaction with a slip: the previous balance is the current balance
\* of the partition, not its balance at the transaction date.
CreateTransaction_CurrentBalance(S, H, req) ==
  IF req.amount = 0 THEN Fail(S, H, "amount cannot be zero")
  ELSE IF req.type = "pemakaian" /\ req.amount > 0
    THEN Fail(S, H, "pemakaian amount must be negative")
  ELSE IF req.type = "penerimaan" /\ req.amount < 0
    THEN Fail(S, H, "penerimaan amount must be positive")
  ELSE IF ~isValidTransactionType(req.type)
    THEN Fail(S, H, "invalid transaction type")
  ELSE IF req.type = "stok_awal" /\ checkFirstStockExists(S, req.org)
    THEN Fail(S, H, "stok awal already exists for this item")
  ELSE
    LET prevBalance == GetCurrentBalance(S, req.org)
        newBalance == prevBalance + req.amount
        id == Len(S) + 1
        inventory == NewInventory(id, req.org, req.date, req.amount, newBalance,
                                  req.type, Nil, Nil, Nil, Nil, Nil, Nil, id)
        S1 == Insert(S, inventory)
        H1 == createHistory(H, S1, inventory, "CREATE")
    IN Returns(RecalculateForward(S1, req.org, req.date), H1, inventory)

CreateTransaction(S, H, req) ==
  IF req.amount = 0 THEN Fail(S, H, "amount cannot be zero")
  ELSE IF req.type = "pemakaian" /\ req.amount > 0
    THEN Fail(S, H, "pemakaian amount must be negative")
  ELSE IF req.type = "penerimaan" /\ req.amount < 0
    THEN Fail(S, H, "penerimaan amount must be positive")
  ELSE IF ~isValidTransactionType(req.type)
    THEN Fail(S, H, "invalid transaction type")
  ELSE IF req.type = "stok_awal" /\ checkFirstStockExists(S, req.org)
    THEN Fail(S, H, "stok awal already exists for this item")
  ELSE
    LET prevBalance == GetBalanceAt(S, req.org, req.date)
        newBalance == prevBalance + req.amount
        id == Len(S) + 1
        inventory == NewInventory(id, req.org, req.date, req.amount, newBalance,
                                  req.type, Nil, Nil, Nil, Nil, Nil, Nil, id)
        S1 == Insert(S, inventory)
        H1 == createHistory(H, S1, inventory, "CREATE")
    IN Returns(RecalculateForward(S1, req.org, req.date), H1, inventory)

\* --------------------------------------------------------- CreateMutation
\* CreateMutation with a slip: the stock check reads the current balance of
\* the source partition, not its balance at the transaction date.
CreateMutation_CurrentBalance(S, H, req) ==
  LET sourceBalance == GetCurrentBalance(S, req.org)
  IN IF sourceBalance < req.amount
     THEN Fail(S, H, "insufficient stock in source organization")
     ELSE
       LET sid == Len(S) + 1
           did == Len(S) + 2
           refID == Ptr(sid)
           sourcePrevBalance == GetBalanceAt(S, req.org, req.date)
           sourceInv == NewInventory(sid, req.org, req.date, -req.amount,
                          sourcePrevBalance - req.amount, "mutation", refID,
                          Ptr(req.org), Ptr(req.to), Nil, Nil, Nil, sid)
           destPrevBalance == GetBalanceAt(S, req.to, req.date)
           destInv == NewInventory(did, req.to, req.date, req.amount,
                          destPrevBalance + req.amount, "mutation", refID,
                          Ptr(req.org), Ptr(req.to), Nil, Nil, Nil, did)
           S1 == Insert(Insert(S, sourceInv), destInv)
           H1 == createHistory(H, S1, sourceInv, "MUTATION_OUT")
           H2 == createHistory(H1, S1, destInv, "MUTATION_IN")
           S2 == RecalculateForward(S1, req.org, req.date)
       IN Ok(RecalculateForward(S2, req.to, req.date), H2, sid)

CreateMutation(S, H, req) ==
  LET sourceBalance == GetBalanceAt(S, req.org, req.date)
  IN IF sourceBalance < req.amount
     THEN Fail(S, H, "insufficient stock in source organization")
     ELSE
       LET sid == Len(S) + 1
           did == Len(S) + 2
           refID == Ptr(sid)
           sourcePrevBalance == GetBalanceAt(S, req.org, req.date)
           sourceInv == NewInventory(sid, req.org, req.date, -req.amount,
                          sourcePrevBalance - req.amount, "mutation", refID,
                          Ptr(req.org), Ptr(req.to), Nil, Nil, Nil, sid)
           destPrevBalance == GetBalanceAt(S, req.to, req.date)
           destInv == NewInventory(did, req.to, req.date, req.amount,
                          destPrevBalance + req.amount, "mutation", refID,
                          Ptr(req.org), Ptr(req.to), Nil, Nil, Nil, did)
           S1 == Insert(Insert(S, sourceInv), destInv)
           H1 == createHistory(H, S1, sourceInv, "MUTATION_OUT")
           H2 == createHistory(H1, S1, destInv, "MUTATION_IN")
           S2 == RecalculateForward(S1, req.org, req.date)
       IN Ok(RecalculateForward(S2, req.to, req.date), H2, sid)

\* ----------------------------------------------------------- CreateOpname
CreateOpname(S, H, req) ==
  LET systemBalance == GetBalanceAt(S, req.org, req.date)
      difference == req.amount - systemBalance
      id == Len(S) + 1
      inventory == NewInventory(id, req.org, req.date, difference, req.amount,
                     "opname", Nil, Nil, Nil,
                     Ptr(req.amount), Ptr(systemBalance), Ptr(difference), id)
      S1 == Insert(S, inventory)
      H1 == createHistory(H, S1, inventory, "OPNAME")
  IN Returns(RecalculateForward(S1, req.org, req.date), H1, inventory)

\* ------------------------------------------------------ UpdateTransaction
handleOpnameUpdate(S, H, existing, req) ==
  LET prevBalance == getBalanceBeforeDate(S, existing.org, req.date, existing.id)
      newDifference == req.amount
      newSystemQty == prevBalance
      newPhysicalQty == prevBalance + req.amount
      S1 == SoftDelete(S, existing.id)
      id == Len(S1) + 1
      newOpname == NewInventory(id, existing.org, req.date, req.amount,
                     newPhysicalQty, "opname", existing.ref_id, Nil, Nil,
                     Ptr(newPhysicalQty), Ptr(newSystemQty), Ptr(newDifference), id)
      S2 == Insert(S1, newOpname)
  IN Ok(RecalculateForward(S2, existing.org, req.date), H, id)

\* FindLive with a slip: the lookup is not scoped to live rows.
FindLive_Unscoped(S, id) == id \in DOMAIN S

\* tx.First(&existing, id): a live row with that id
FindLive(S, id) == id \in DOMAIN S /\ ~S[id].deleted

UpdateTransaction(S, H, req) ==
  IF ~FindLive(S, req.id) THEN Fail(S, H, "record not found")
  ELSE
    LET existing == S[req.id]
        H1 == createHistory(H, S, existing, "UPDATE_BEFORE")
    IN IF existing.type = "opname"
       THEN handleOpnameUpdate(S, H1, existing, req)
       ELSE
         LET S1 == SoftDelete(S, existing.id)
             prevBalance == getBalanceBeforeDate(S1, existing.org, req.date, existing.id)
             id == Len(S1) + 1
             isMut == existing.type = "mutation"
             newInventory == NewInventory(id, existing.org, req.date, req.amount,
                               prevBalance + req.amount, existing.type,
                               existing.ref_id,
                               IF isMut THEN existing.from_org ELSE Nil,
                               IF isMut THEN existing.to_org ELSE Nil,
                               Nil, Nil, Nil, id)
             S2 == Insert(S1, newInventory)
             H2 == createHistory(H1, S2, newInventory, "UPDATE_AFTER")
             earliestDate == IF req.date < existing.txn_date
                             THEN req.date ELSE existing.txn_date
         IN Ok(RecalculateForward(S2, existing.org, earliestDate), H2, id)

\* ------------------------------------------------------ DeleteTransaction
\* DeleteTransaction with a slip: the DELETE_BEFORE record is not written.
DeleteTransaction_NoHistory(S, H, req) ==
  IF ~FindLive(S, req.id) THEN Fail(S, H, "record not found")
  ELSE
    LET inventory == S[req.id]
        S1 == SoftDelete(S, inventory.id)
    IN Ok(RecalculateForward(S1, inventory.org, inventory.txn_date), H, inventory.id)

\* DeleteTransaction with a slip: the partition is not recalculated after the
\* soft delete.
DeleteTransaction_NoRecalc(S, H, req) ==
  IF ~FindLive(S, req.id) THEN Fail(S, H, "record not found")
  ELSE
    LET inventory == S[req.id]
        H1 == createHistory(H, S, inventory, "DELETE_BEFORE")
        S1 == SoftDelete(S, inventory.id)
    IN Ok(S1, H1, inventory.id)

DeleteTransaction(S, H, req) ==
  IF ~FindLive(S, req.id) THEN Fail(S, H, "record not found")
  ELSE
    LET inventory == S[req.id]
        H1 == createHistory(H, S, inventory, "DELETE_BEFORE")
        S1 == SoftDelete(S, inventory.id)
    IN Ok(RecalculateForward(S1, inventory.org, inventory.txn_date), H1, inventory.id)

\* ---------------------------------------------------- RollbackTransaction
\* which snapshot column the switch on history.Action selects; a column that
\* createHistory left unset is Nil, and json.Unmarshal of it is an error
SnapshotData(h) ==
  IF h.action \in {"CREATE", "MUTATION_IN", "MUTATION_OUT", "OPNAME"}
  THEN h.data_after
  ELSE h.data_before

\* RollbackActions with a slip: the switch has a case for ROLLBACK as well.
RollbackActions_WithRollback ==
  {"CREATE", "MUTATION_IN", "MUTATION_OUT", "OPNAME",
   "UPDATE_BEFORE", "DELETE_BEFORE", "UPDATE_AFTER", "ROLLBACK"}

\* the cases of the switch on history.Action; any other action is the default
RollbackActions ==
  {"CREATE", "MUTATION_IN", "MUTATION_OUT", "OPNAME",
   "UPDATE_BEFORE", "DELETE_BEFORE", "UPDATE_AFTER"}

\* SoftDeleteTail with a slip: the rows dated exactly from are left live.
SoftDeleteTail_After(S, org, from) ==
  [i \in DOMAIN S |->
     IF i \in Live(S, org) /\ S[i].txn_date > from
     THEN [S[i] EXCEPT !.deleted = TRUE] ELSE S[i]]

\* Updates(deleted_at = now) on the live tail of the partition
SoftDeleteTail(S, org, from) ==
  [i \in DOMAIN S |->
     IF i \in LiveTail(S, org, from) THEN [S[i] EXCEPT !.deleted = TRUE] ELSE S[i]]

\* RestoreItems with a slip: the snapshot's original row is made live again
\* instead of a fresh row being created.
RECURSIVE RestoreItems_Resurrects(_, _, _)
RestoreItems_Resurrects(S, items, org) ==
  IF items = <<>> THEN S
  ELSE
    LET item == Head(items)
    IN RestoreItems_Resurrects(
         [S EXCEPT ![item.inventory_id].deleted = FALSE,
                   ![item.inventory_id].amount = item.amount,
                   ![item.inventory_id].balance = item.balance],
         Tail(items), org)

\* the loop that re-creates one row per snapshot item
RECURSIVE RestoreItems(_, _, _)
RestoreItems(S, items, org) ==
  IF items = <<>> THEN S
  ELSE
    LET item == Head(items)
        id == Len(S) + 1
        found == item.inventory_id \in DOMAIN S
        original == S[item.inventory_id]
        isMut == item.type = "mutation" /\ found
        isOpn == item.type = "opname" /\ found
        inventory == NewInventory(id, org, item.txn_date, item.amount,
                       item.balance, item.type, item.ref_id,
                       IF isMut THEN original.from_org ELSE Nil,
                       IF isMut THEN original.to_org ELSE Nil,
                       IF isOpn THEN original.physical_qty ELSE Nil,
                       IF isOpn THEN original.system_qty ELSE Nil,
                       IF isOpn THEN original.difference ELSE Nil, id)
    IN RestoreItems(Insert(S, inventory), Tail(items), org)

\* RollbackTransaction with a slip: the ROLLBACK record's data_after is taken
\* before the forward recalculation, as createHistory is in the other writes.
RollbackTransaction_SnapshotFirst(S, H, req) ==
  IF req.id \notin DOMAIN H THEN Fail(S, H, "record not found")
  ELSE
    LET h == H[req.id]
    IN IF h.action \notin RollbackActions
       THEN Fail(S, H, "unsupported history action for rollback")
       ELSE IF SnapshotData(h) = Nil
       THEN Fail(S, H, "unexpected end of JSON input")
       ELSE
         LET snapshotItems == Deref(SnapshotData(h))
             S1 == SoftDeleteTail(S, h.org, h.snapshot_from_date)
             S2 == RestoreItems(S1, snapshotItems, h.org)
             S3 == RecalculateForward(S2, h.org, h.snapshot_from_date)
             rollbackHistory ==
               [id |-> Len(H) + 1, org |-> h.org, trigger |-> h.trigger,
                snapshot_from_date |-> h.snapshot_from_date,
                action |-> "ROLLBACK",
                data_before |-> Ptr(Snapshot(S2,
                                  DeletedTail(S2, h.org, h.snapshot_from_date))),
                data_after |-> Ptr(Snapshot(S2,
                                  LiveTail(S2, h.org, h.snapshot_from_date)))]
         IN Ok(S3, Append(H, rollbackHistory), 0)

\* RollbackTransaction with a slip: the live tail is not soft-deleted before
\* the snapshot's rows are re-created.
RollbackTransaction_KeepsTail(S, H, req) ==
  IF req.id \notin DOMAIN H THEN Fail(S, H, "record not found")
  ELSE
    LET h == H[req.id]
    IN IF h.action \notin RollbackActions
       THEN Fail(S, H, "unsupported history action for rollback")
       ELSE IF SnapshotData(h) = Nil
       THEN Fail(S, H, "unexpected end of JSON input")
       ELSE
         LET snapshotItems == Deref(SnapshotData(h))
             S2 == RestoreItems(S, snapshotItems, h.org)
             S3 == RecalculateForward(S2, h.org, h.snapshot_from_date)
             rollbackHistory ==
               [id |-> Len(H) + 1, org |-> h.org, trigger |-> h.trigger,
                snapshot_from_date |-> h.snapshot_from_date,
                action |-> "ROLLBACK",
                data_before |-> Ptr(Snapshot(S3,
                                  DeletedTail(S3, h.org, h.snapshot_from_date))),
                data_after |-> Ptr(Snapshot(S3,
                                  LiveTail(S3, h.org, h.snapshot_from_date)))]
         IN Ok(S3, Append(H, rollbackHistory), 0)

RollbackTransaction(S, H, req) ==
  IF req.id \notin DOMAIN H THEN Fail(S, H, "record not found")
  ELSE
    LET h == H[req.id]
    IN IF h.action \notin RollbackActions
       THEN Fail(S, H, "unsupported history action for rollback")
       ELSE IF SnapshotData(h) = Nil
       THEN Fail(S, H, "unexpected end of JSON input")
       ELSE
         LET snapshotItems == Deref(SnapshotData(h))
             S1 == SoftDeleteTail(S, h.org, h.snapshot_from_date)
             S2 == RestoreItems(S1, snapshotItems, h.org)
             S3 == RecalculateForward(S2, h.org, h.snapshot_from_date)
             rollbackHistory ==
               [id |-> Len(H) + 1, org |-> h.org, trigger |-> h.trigger,
                snapshot_from_date |-> h.snapshot_from_date,
                action |-> "ROLLBACK",
                data_before |-> Ptr(Snapshot(S3,
                                  DeletedTail(S3, h.org, h.snapshot_from_date))),
                data_after |-> Ptr(Snapshot(S3,
                                  LiveTail(S3, h.org, h.snapshot_from_date)))]
         IN Ok(S3, Append(H, rollbackHistory), 0)


\* ------------------------------------------------- serial specification
\* Requests are served one at a time; each action is one whole write
\* (one store transaction).  ops is the log of the requests served: the
\* request, its outcome and the committed tables it started from.
Req(org, id, date, amount, type, to) ==
  [org |-> org, id |-> id, date |-> date, amount |-> amount, type |-> type, to |-> to]

LogRec(op, req, r) ==
  [op |-> op, req |-> req, ok |-> r.ok, err |-> r.err, inv |-> r.inv, ret |-> r.ret,
   pre |-> entries, preh |-> history]

\* Exploration stops after MaxOps requests, and after a rejected request:
\* a rejected request commits nothing, so the tables after it are the
\* tables before it.
CanServe == Len(ops) < MaxOps /\ (IF ops = <<>> THEN TRUE ELSE ops[Len(ops)].ok)

Commit(op, req, r) ==
  /\ entries' = r.entries
  /\ history' = r.history
  /\ ops' = Append(ops, LogRec(op, req, r))
  /\ UNCHANGED <<tx, base>>

\* a request handler that has not begun a store transaction
IdleTx ==
  [pc |-> "idle", req |-> Req(0, 0, 0, 0, "", 0), ok |-> FALSE, prev |-> 0,
   id |-> 0, hist |-> <<>>, start |-> 0, batch |-> <<>>, saved |-> <<>>]

Procs == {1, 2}

Init ==
  /\ entries = <<>>
  /\ history = <<>>
  /\ ops = <<>>
  /\ tx = [p \in Procs |-> IdleTx]
  /\ base = <<>>

DoCreate ==
  /\ CanServe
  /\ \E org \in Orgs, d \in Dates, ta \in CreateInputs :
       LET req == Req(org, 0, d, ta[2], ta[1], 0)
       IN Commit("create", req, CreateTransaction(entries, history, req))

DoMutation ==
  /\ CanServe
  /\ \E from \in Orgs, d \in Dates, q \in Quantities : \E to \in Orgs \ {from} :
       LET req == Req(from, 0, d, q, "mutation", to)
       IN Commit("mutation", req, CreateMutation(entries, history, req))

DoOpname ==
  /\ CanServe
  /\ \E org \in Orgs, d \in Dates, p \in PhysQtys :
       LET req == Req(org, 0, d, p, "opname", 0)
       IN Commit("opname", req, CreateOpname(entries, history, req))

DoUpdate ==
  /\ CanServe
  /\ \E id \in DOMAIN entries, d \in Dates, a \in Amounts :
       LET req == Req(0, id, d, a, "", 0)
       IN Commit("update", req, UpdateTransaction(entries, history, req))

DoDelete ==
  /\ CanServe
  /\ \E id \in DOMAIN entries :
       LET req == Req(0, id, 0, 0, "", 0)
       IN Commit("delete", req, DeleteTransaction(entries, history, req))

DoRollback ==
  /\ CanServe
  /\ \E hid \in DOMAIN history :
       LET req == Req(0, hid, 0, 0, "", 0)
       IN Commit("rollback", req, RollbackTransaction(entries, history, req))

Next ==
  \/ DoCreate
  \/ DoMutation
  \/ DoOpname
  \/ DoUpdate
  \/ DoDelete
  \/ DoRollback

Spec == Init /\ [][Next]_vars

\* --------------------------------------------------------- common notions
\* the last request served, if any
Served == ops # <<>>
LastOp == ops[Len(ops)]

\* the live entries of a partition in replay order
LiveSeq(S, org) == OrderAsc(S, Live(S, org))

\* balance of the live entry preceding position k of the replay order
PrevBalance(S, o, k) == IF k = 1 THEN 0 ELSE S[o[k - 1]].balance

LawAt(S, o, k) ==
  LET e == S[o[k]]
  IN IF e.type = "opname"
     THEN e.physical_qty # Nil /\ e.balance = Deref(e.physical_qty)
     ELSE e.balance = PrevBalance(S, o, k) + e.amount

BalanceConsistent(S, org) ==
  LET o == LiveSeq(S, org)
  IN \A k \in DOMAIN o : LawAt(S, o, k)


AllLive(S) == {i \in DOMAIN S : ~S[i].deleted}

\* live entries of kind mutation carrying ref_id r
LiveLegs(S, r) == {i \in AllLive(S) : S[i].type = "mutation" /\ S[i].ref_id = r}

CountSelfConsistent(e) ==
  /\ e.physical_qty # Nil /\ e.system_qty # Nil /\ e.difference # Nil
  /\ Deref(e.difference) = Deref(e.physical_qty) - Deref(e.system_qty)
  /\ e.balance = Deref(e.physical_qty)
  /\ e.amount = Deref(e.difference)

\* ------------------------------------------------------------------- C1
\* C1: after every committed operation, in every partition, each live
\* non-count entry has balance = balance of the preceding live entry (0 if
\* none) + amount, and each live count entry has balance = physical_qty.
C1_BalanceConsistency == \A org \in Orgs : BalanceConsistent(entries, org)

\* ------------------------------------------------------------------- C2
\* C2: at most one live entry of kind first_stock (stok_awal) per partition
\* after every committed operation.
C2_AtMostOneFirstStock ==
  \A org \in Orgs :
    Cardinality({i \in Live(entries, org) : entries[i].type = "stok_awal"}) <= 1

\* ------------------------------------------------------------------- C3
\* C3: for every ref_id carried by a live mutation entry there are exactly
\* two live entries with that ref_id, their amounts sum to 0, and both carry
\* the same (from_org_id, to_org_id), naming the partitions they live in.
C3_MutationSymmetry ==
  \A i \in AllLive(entries) :
    entries[i].type = "mutation" =>
      LET legs == LiveLegs(entries, entries[i].ref_id)
      IN /\ Cardinality(legs) = 2
         /\ \E a \in legs, b \in legs :
              /\ a # b
              /\ entries[a].amount + entries[b].amount = 0
              /\ entries[a].from_org = entries[b].from_org
              /\ entries[a].to_org = entries[b].to_org
              /\ entries[a].from_org = Ptr(entries[a].org)
              /\ entries[b].to_org = Ptr(entries[b].org)

\* ------------------------------------------------------------------- C4
\* C4: after every committed operation every live count (opname) entry has
\* difference = physical_qty - system_qty, balance = physical_qty and
\* amount = difference.
C4_CountSelfConsistency ==
  \A i \in AllLive(entries) :
    entries[i].type = "opname" => CountSelfConsistent(entries[i])

\* a rollback has re-inserted a count entry, or an update has replaced one
C4_Witness ==
  /\ Served
  /\ LastOp.ok
  /\ LastOp.op \in {"rollback", "update"}
  /\ \E i \in AllLive(entries) :
       /\ i > Len(LastOp.pre)
       /\ entries[i].type = "opname"
       /\ entries[i].amount # 0

\* ------------------------------------------------------------------- C5
\* C5: after every committed operation every live receipt has amount > 0,
\* every live issue amount < 0, every live first_stock amount # 0, the
\* source leg of a mutation amount < 0 and the destination leg amount > 0.
C5_SignConstraints ==
  \A i \in AllLive(entries) :
    LET e == entries[i]
    IN /\ e.type = "penerimaan" => e.amount > 0
       /\ e.type = "pemakaian" => e.amount < 0
       /\ e.type = "stok_awal" => e.amount # 0
       /\ (e.type = "mutation" /\ e.from_org = Ptr(e.org)) => e.amount < 0
       /\ (e.type = "mutation" /\ e.to_org = Ptr(e.org)) => e.amount > 0


\* ------------------------------------------------------------------- C7
\* (txn_date, amount, kind, balance) of the live entries of a partition in
\* replay order
Projection(S, org) ==
  LET o == LiveSeq(S, org)
  IN [k \in DOMAIN o |->
        <<S[o[k]].txn_date, S[o[k]].amount, S[o[k]].type, S[o[k]].balance>>]

\* the last two requests were a successful update of a non-count entry and a
\* successful rollback of the UPDATE_BEFORE record that update wrote
UpdateThenRollback ==
  /\ Len(ops) >= 2
  /\ LET u == ops[Len(ops) - 1]
         r == ops[Len(ops)]
     IN /\ u.op = "update" /\ u.ok
        /\ u.pre[u.req.id].type # "opname"
        /\ r.op = "rollback" /\ r.ok
        /\ r.req.id = Len(u.preh) + 1
        /\ r.preh[r.req.id].action = "UPDATE_BEFORE"

\* C7: an update of a non-count entry followed at once by rollback on its
\* UPDATE_BEFORE record leaves the partition's live entries with exactly the
\* sequence of (txn_date, amount, kind, balance) they had before the update.
C7_UpdateRollbackRoundTrip ==
  UpdateThenRollback =>
    LET u == ops[Len(ops) - 1]
        org == u.pre[u.req.id].org
    IN Projection(entries, org) = Projection(u.pre, org)

\* ------------------------------------------------------------------- C8
\* the last request was a rollback addressed to an UPDATE_AFTER record
RollbackOfUpdateAfter ==
  /\ Served
  /\ LastOp.op = "rollback"
  /\ LastOp.req.id \in DOMAIN LastOp.preh
  /\ LastOp.preh[LastOp.req.id].action = "UPDATE_AFTER"

\* C8: rollback on an UPDATE_AFTER record is accepted and succeeds, and
\* afterwards the live tail from snapshot_from_date consists of the items of
\* the record's data_before snapshot.
C8_RollbackOfUpdateAfter ==
  RollbackOfUpdateAfter =>
    LET h == LastOp.preh[LastOp.req.id]
        o == OrderAsc(entries, LiveTail(entries, h.org, h.snapshot_from_date))
    IN /\ LastOp.ok
       /\ h.data_before # Nil
       /\ Len(o) = Len(Deref(h.data_before))
       /\ \A k \in DOMAIN o :
            /\ entries[o[k]].txn_date = Deref(h.data_before)[k].txn_date
            /\ entries[o[k]].amount = Deref(h.data_before)[k].amount
            /\ entries[o[k]].type = Deref(h.data_before)[k].type

\* ------------------------------------------------------------------- C9
\* C9: once an entry is soft-deleted it is never live again, and every entry
\* a step inserts has an id different from the id of every entry that
\* existed before.
C9_NoResurrection ==
  [][ /\ \A i \in DOMAIN entries :
           /\ i \in DOMAIN entries'
           /\ entries'[i].id = entries[i].id
           /\ entries[i].deleted => entries'[i].deleted
      /\ \A j \in DOMAIN entries' \ DOMAIN entries :
           \A i \in DOMAIN entries : entries'[j].id # entries[i].id ]_vars

\* a rollback has soft-deleted live entries and inserted entries
C9_Witness ==
  /\ Served
  /\ LastOp.op = "rollback" /\ LastOp.ok
  /\ Len(entries) > Len(LastOp.pre)
  /\ \E i \in DOMAIN LastOp.pre : ~LastOp.pre[i].deleted /\ entries[i].deleted

\* ------------------------------------------------------------------ C10
\* C10: every successful rollback appends one ROLLBACK record whose
\* data_after lists exactly the live entries of the partition with
\* txn_date >= snapshot_from_date, in (txn_date, created_at) order, with the
\* ids, amounts and balances the entries have when the rollback commits.
C10_RollbackDataAfter ==
  (Served /\ LastOp.op = "rollback" /\ LastOp.ok) =>
    /\ Len(history) = Len(LastOp.preh) + 1
    /\ LET h == history[Len(history)]
           src == LastOp.preh[LastOp.req.id]
           tail == LiveTail(entries, src.org, src.snapshot_from_date)
       IN /\ h.action = "ROLLBACK"
          /\ h.org = src.org
          /\ h.snapshot_from_date = src.snapshot_from_date
          /\ h.data_after # Nil
          /\ LET items == Deref(h.data_after)
             IN /\ Len(items) = Cardinality(tail)
                /\ {items[k].inventory_id : k \in DOMAIN items} = tail
                /\ \A k \in DOMAIN items :
                     /\ items[k].amount = entries[items[k].inventory_id].amount
                     /\ items[k].balance = entries[items[k].inventory_id].balance
                     /\ items[k].txn_date = entries[items[k].inventory_id].txn_date
                /\ \A k, l \in DOMAIN items :
                     k < l => Before(entries[items[k].inventory_id],
                                     entries[items[l].inventory_id])

\* a rollback whose forward recalculation changed a restored balance: the
\* record's data_after differs in a balance from the snapshot restored
C10_Witness ==
  /\ Served
  /\ LastOp.op = "rollback" /\ LastOp.ok
  /\ LET restored == Deref(SnapshotData(LastOp.preh[LastOp.req.id]))
         after == Deref(history[Len(history)].data_after)
     IN /\ Len(after) = Len(restored)
        /\ \E k \in DOMAIN after :
             /\ after[k].txn_date = restored[k].txn_date
             /\ after[k].amount = restored[k].amount
             /\ after[k].balance # restored[k].balance


\* ------------------------------------------------------------------ C12
\* the history records the last request appended, as (action, partition)
Appended == SubSeq(history, Len(LastOp.preh) + 1, Len(history))
AppendedActions == [k \in DOMAIN Appended |-> <<Appended[k].action, Appended[k].org>>]
\* the records that were there before the last request are still there
HistoryKept ==
  /\ Len(history) >= Len(LastOp.preh)
  /\ SubSeq(history, 1, Len(LastOp.preh)) = LastOp.preh

\* C12: every successful update, of a delta entry or of a count entry,
\* appends exactly one UPDATE_BEFORE and exactly one UPDATE_AFTER history
\* record to the partition of the updated entry.
C12_UpdateHistoryPairing ==
  (Served /\ LastOp.op = "update" /\ LastOp.ok) =>
    LET org == LastOp.pre[LastOp.req.id].org
    IN /\ HistoryKept
       /\ Len(Appended) = 2
       /\ {AppendedActions[k] : k \in DOMAIN Appended}
            = {<<"UPDATE_BEFORE", org>>, <<"UPDATE_AFTER", org>>}

\* ------------------------------------------------------------------ C13
\* C13: a successful create appends exactly one CREATE record, a count one
\* OPNAME (count) record, a mutation one MUTATION_OUT record on the source
\* partition and one MUTATION_IN record on the destination partition, a
\* delete one DELETE_BEFORE record and a rollback one ROLLBACK record, each
\* on the partition written; a write that fails appends none.
C13_HistoryPerWrite ==
  Served =>
    /\ HistoryKept
    /\ ~LastOp.ok => Appended = <<>>
    /\ (LastOp.ok /\ LastOp.op = "create") =>
          AppendedActions = <<(<<"CREATE", LastOp.req.org>>)>>
    /\ (LastOp.ok /\ LastOp.op = "opname") =>
          AppendedActions = <<(<<"OPNAME", LastOp.req.org>>)>>
    /\ (LastOp.ok /\ LastOp.op = "mutation") =>
          /\ Len(Appended) = 2
          /\ {AppendedActions[k] : k \in DOMAIN Appended}
               = {<<"MUTATION_OUT", LastOp.req.org>>, <<"MUTATION_IN", LastOp.req.to>>}
    /\ (LastOp.ok /\ LastOp.op = "delete") =>
          AppendedActions = <<(<<"DELETE_BEFORE", LastOp.pre[LastOp.req.id].org>>)>>
    /\ (LastOp.ok /\ LastOp.op = "rollback") =>
          AppendedActions = <<(<<"ROLLBACK", LastOp.preh[LastOp.req.id].org>>)>>

\* a create, a mutation and then a delete, each with its record
C13_Witness ==
  /\ Len(ops) = MaxOps
  /\ ops[1].op = "create" /\ ops[1].ok
  /\ ops[2].op = "mutation" /\ ops[2].ok
  /\ LastOp.op = "delete" /\ LastOp.ok
  /\ Len(history) = Len(LastOp.preh) + 1

\* ------------------------------------------------------------------ C16
\* the last request changed neither table
NothingWritten == entries = LastOp.pre /\ history = LastOp.preh

\* the last request was a mutation whose source partition had, at the
\* transaction date, a balance below the quantity asked
MutationShort ==
  /\ Served
  /\ LastOp.op = "mutation"
  /\ GetBalanceAt(LastOp.pre, LastOp.req.org, LastOp.req.date) < LastOp.req.amount

\* C16: a mutation of qty from from_org to to_org at txn_date fails with
\* insufficient stock whenever balance_at(from_org, item, txn_date) < qty,
\* and then inserts no entry, no history record and changes no balance in
\* either partition.
C16_InsufficientStock ==
  MutationShort =>
    /\ ~LastOp.ok
    /\ LastOp.err = "insufficient stock in source organization"
    /\ NothingWritten

\* a mutation refused although the source partition holds enough stock at a
\* later date
C16_Witness ==
  /\ MutationShort
  /\ ~LastOp.ok
  /\ GetCurrentBalance(LastOp.pre, LastOp.req.org) >= LastOp.req.amount
  /\ Live(LastOp.pre, LastOp.req.to) # {}

\* ------------------------------------------------------------------ C17
\* the last request was a create of a first_stock (stok_awal) entry
FirstStockCreate ==
  /\ Served
  /\ LastOp.op = "create"
  /\ LastOp.req.type = "stok_awal"

LiveFirstStocks(S, org) == {i \in Live(S, org) : S[i].type = "stok_awal"}

\* C17: creating a first_stock entry in a partition that already has a live
\* first_stock entry fails with a conflict error and leaves entries and
\* history unchanged; it succeeds when the partition has no live
\* first_stock entry.
C17_FirstStockConflict ==
  FirstStockCreate =>
    IF LiveFirstStocks(LastOp.pre, LastOp.req.org) # {}
    THEN /\ ~LastOp.ok
         /\ LastOp.err = "stok awal already exists for this item"
         /\ NothingWritten
    ELSE /\ LastOp.ok
         /\ LiveFirstStocks(entries, LastOp.req.org) = {LastOp.inv}

\* a first_stock create refused in a partition holding one live and one
\* soft-deleted first_stock entry
C17_Witness ==
  /\ FirstStockCreate
  /\ ~LastOp.ok
  /\ Cardinality(LiveFirstStocks(LastOp.pre, LastOp.req.org)) = 1
  /\ \E i \in DOMAIN LastOp.pre :
       /\ LastOp.pre[i].org = LastOp.req.org
       /\ LastOp.pre[i].type = "stok_awal"
       /\ LastOp.pre[i].deleted

\* --------------------------------------------- concurrent specification
\* Two request handlers each serve one CreateTransaction for the same
\* partition, each in its own store transaction (s.DB.Transaction), with no
\* lock of the service's own.  The store is PostgreSQL at its default
\* isolation (read committed): a statement sees the rows committed before it
\* starts and the writes of its own transaction; an UPDATE of a row another
\* open transaction has written waits for that transaction to end.
\* A step is one statement of CreateTransaction / createHistory /
\* RecalculateForward.

\* the partition both handlers write to
ConcOrg == 1

Open(p) == tx[p].pc \notin {"idle", "done"}

\* rows inserted by an open transaction
Uncommitted(p) == IF Open(p) /\ tx[p].id # 0 THEN {tx[p].id} ELSE {}

\* what s.Repo.DB (no transaction) reads: committed rows only
CommittedView ==
  [i \in DOMAIN entries \ UNION {Uncommitted(q) : q \in Procs} |-> entries[i]]

\* what tx reads: committed rows and the transaction's own writes
TxView(p) ==
  SaveAll([i \in DOMAIN CommittedView \cup Uncommitted(p) |-> entries[i]],
          tx[p].saved)

\* row id is write-locked by another open transaction
LockedByOther(p, id) ==
  \E q \in Procs \ {p} :
    Open(q) /\ \E k \in DOMAIN tx[q].saved : tx[q].saved[k].id = id

\* lines 103-125: argument checks, begin, type check, first-stock check
Begin(p) ==
  /\ tx[p].pc = "idle"
  /\ \E d \in Dates, ta \in CreateInputs :
       LET req == Req(ConcOrg, 0, d, ta[2], ta[1], 0)
           rejected == \/ req.amount = 0
                       \/ req.type = "pemakaian" /\ req.amount > 0
                       \/ req.type = "penerimaan" /\ req.amount < 0
                       \/ ~isValidTransactionType(req.type)
                       \/ req.type = "stok_awal"
                            /\ checkFirstStockExists(CommittedView, req.org)
       IN tx' = [tx EXCEPT ![p].req = req,
                           ![p].pc = IF rejected THEN "done" ELSE "read"]
  /\ UNCHANGED <<entries, history, ops, base>>

\* line 126: prevBalance, read through s.Repo.DB
ReadPrev(p) ==
  /\ tx[p].pc = "read"
  /\ tx' = [tx EXCEPT ![p].prev = GetBalanceAt(CommittedView, tx[p].req.org,
                                               tx[p].req.date),
                      ![p].pc = "insert"]
  /\ UNCHANGED <<entries, history, ops, base>>

\* lines 130-160: tx.Create(inventory)
InsertRow(p) ==
  /\ tx[p].pc = "insert"
  /\ LET req == tx[p].req
         id == Len(entries) + 1
         inventory == NewInventory(id, req.org, req.date, req.amount,
                        tx[p].prev + req.amount, req.type,
                        Nil, Nil, Nil, Nil, Nil, Nil, id)
     IN /\ entries' = Insert(entries, inventory)
        /\ tx' = [tx EXCEPT ![p].id = id, ![p].pc = "history"]
  /\ UNCHANGED <<history, ops, base>>

\* line 161: createHistory(tx, inventory, "CREATE")
WriteHistory(p) ==
  /\ tx[p].pc = "history"
  /\ tx' = [tx EXCEPT
              ![p].hist = createHistory(<<>>, TxView(p), entries[tx[p].id], "CREATE"),
              ![p].pc = "recalc_start"]
  /\ UNCHANGED <<entries, history, ops, base>>

\* RecalculateForward, first query: the start balance
RecalcStart(p) ==
  /\ tx[p].pc = "recalc_start"
  /\ tx' = [tx EXCEPT
              ![p].start = StartBalance(TxView(p), tx[p].req.org, tx[p].req.date),
              ![p].pc = "recalc_tail"]
  /\ UNCHANGED <<entries, history, ops, base>>

\* RecalculateForward, second query and the loop: the batch to save
RecalcTail(p) ==
  /\ tx[p].pc = "recalc_tail"
  /\ LET V == TxView(p)
         tail == OrderAsc(V, LiveTail(V, tx[p].req.org, tx[p].req.date))
     IN tx' = [tx EXCEPT ![p].batch = RecalcBatch(V, tail, tx[p].start),
                         ![p].pc = "save"]
  /\ UNCHANGED <<entries, history, ops, base>>

\* tx.Save(&inv) of the next row of the batch; waits while the row is
\* write-locked by the other transaction
SaveRow(p) ==
  /\ tx[p].pc = "save"
  /\ tx[p].batch # <<>>
  /\ ~LockedByOther(p, Head(tx[p].batch).id)
  /\ tx' = [tx EXCEPT ![p].saved = Append(tx[p].saved, Head(tx[p].batch)),
                      ![p].batch = Tail(tx[p].batch)]
  /\ UNCHANGED <<entries, history, ops, base>>

\* the transaction function returns nil: commit
CommitTx(p) ==
  /\ tx[p].pc = "save"
  /\ tx[p].batch = <<>>
  /\ entries' = SaveAll(entries, tx[p].saved)
  /\ history' = Append(history, [tx[p].hist[1] EXCEPT !.id = Len(history) + 1])
  /\ tx' = [tx EXCEPT ![p].pc = "done", ![p].ok = TRUE, ![p].saved = <<>>]
  /\ UNCHANGED <<ops, base>>

\* the committed tables the two requests arrive at: empty, or after one
\* serially served create
BaseRequests == {Req(ConcOrg, 0, 2, 1, "penerimaan", 0)}

InitConc ==
  /\ ops = <<>>
  /\ tx = [p \in Procs |-> IdleTx]
  /\ \/ /\ entries = <<>>
        /\ history = <<>>
     \/ \E req \in BaseRequests :
          /\ entries = CreateTransaction(<<>>, <<>>, req).entries
          /\ history = CreateTransaction(<<>>, <<>>, req).history
  /\ base = entries

NextConc ==
  \E p \in Procs :
    \/ Begin(p)
    \/ ReadPrev(p)
    \/ InsertRow(p)
    \/ WriteHistory(p)
    \/ RecalcStart(p)
    \/ RecalcTail(p)
    \/ SaveRow(p)
    \/ CommitTx(p)

SpecConc == InitConc /\ [][NextConc]_vars

\* ------------------------------------------------------------------- C6
BothCommitted == \A p \in Procs : tx[p].pc = "done" /\ tx[p].ok

\* the entries after serving request a and then request b one after the other
SerialEntries(a, b) ==
  LET r1 == CreateTransaction(base, <<>>, a)
  IN CreateTransaction(r1.entries, r1.history, b).entries

\* C6: two writes running concurrently on one partition are serialized:
\* after both commit the partition satisfies balance consistency and its
\* state is the state of running the two writes one after the other in some
\* order.
C6_ConcurrentWritesSerialized ==
  BothCommitted =>
    /\ BalanceConsistent(entries, ConcOrg)
    /\ \/ Projection(entries, ConcOrg)
            = Projection(SerialEntries(tx[1].req, tx[2].req), ConcOrg)
       \/ Projection(entries, ConcOrg)
            = Projection(SerialEntries(tx[2].req, tx[1].req), ConcOrg)

\* ------------------------------------------- recalculation specification
\* RecalculateForward on its own: the table is drawn from the tables a write
\* hands to it (rows inserted and soft-deleted, the stored balances of the
\* rows behind them not yet repaired), and the function is called, and then
\* called again with the same arguments and nothing written in between.

\* rows of the drawn table
MaxRows == 2
\* the partition recalculated
RecalcOrg == 1

\* delta rows: (type, amount), txn_date, stored balance, soft-deleted or not
DeltaRows ==
  {[type |-> ta[1], amount |-> ta[2], date |-> d, balance |-> b,
    phys |-> Nil, sys |-> Nil, diff |-> Nil, deleted |-> x] :
     ta \in {<<"penerimaan", 1>>, <<"pemakaian", -1>>}, d \in Dates,
     b \in {0, 1}, x \in BOOLEAN}

\* count rows as CreateOpname makes them, for a system balance s read then
CountRows ==
  {[type |-> "opname", amount |-> p - s, date |-> d, balance |-> p,
    phys |-> Ptr(p), sys |-> Ptr(s), diff |-> Ptr(p - s), deleted |-> x] :
     p \in PhysQtys, s \in {0, 1}, d \in Dates, x \in BOOLEAN}

MakeRow(id, r) ==
  [NewInventory(id, RecalcOrg, r.date, r.amount, r.balance, r.type, Nil, Nil, Nil,
                r.phys, r.sys, r.diff, id) EXCEPT !.deleted = r.deleted]

\* the table of n rows drawn as f
RecalcStore(n, f) == [i \in 1..n |-> MakeRow(i, f[i])]

InitRecalc ==
  /\ \E n \in 0..MaxRows : \E f \in [1..n -> DeltaRows \cup CountRows] :
       entries = RecalcStore(n, f)
  /\ history = <<>>
  /\ ops = <<>>
  /\ tx = [p \in Procs |-> IdleTx]
  /\ base = <<>>

\* one call from pivot date d; saved is the batch of rows the call saves
Call(d) ==
  LET tail == OrderAsc(entries, LiveTail(entries, RecalcOrg, d))
      batchUpdates == RecalcBatch(entries, tail, StartBalance(entries, RecalcOrg, d))
  IN /\ entries' = RecalculateForward(entries, RecalcOrg, d)
     /\ ops' = Append(ops, [op |-> "recalc", date |-> d, pre |-> entries,
                            saved |-> batchUpdates])
     /\ UNCHANGED <<history, tx, base>>

\* the call a write makes
Recalculate ==
  /\ ops = <<>>
  /\ \E d \in Dates : Call(d)

\* the same call made once more
RecalculateAgain ==
  /\ Len(ops) = 1
  /\ Call(ops[1].date)

NextRecalc ==
  \/ Recalculate
  \/ RecalculateAgain

SpecRecalc == InitRecalc /\ [][NextRecalc]_vars

\* the fields a recalculation may write
RecalcFields(e) == <<e.amount, e.balance, e.system_qty, e.physical_qty, e.difference>>

\* the last two calls had the same pivot date
CalledTwice ==
  /\ Len(ops) >= 2
  /\ ops[Len(ops)].date = ops[Len(ops) - 1].date

\* ------------------------------------------------------------------ C14
\* C14: when recalculate_forward(P, d) is called twice in succession with
\* no write in between, the second call leaves amount, balance, system_qty,
\* physical_qty and difference of every entry of P unchanged.
C14_RecalcIdempotent ==
  CalledTwice =>
    /\ DOMAIN entries = DOMAIN LastOp.pre
    /\ \A i \in DOMAIN entries :
         RecalcFields(entries[i]) = RecalcFields(LastOp.pre[i])

\* two calls in succession, the first of which repaired a delta row and a
\* count row
C14_Witness ==
  /\ CalledTwice
  /\ LET first == ops[Len(ops) - 1]
     IN /\ \E k \in DOMAIN first.saved :
             /\ first.saved[k].type = "opname"
             /\ RecalcFields(first.saved[k]) # RecalcFields(first.pre[first.saved[k].id])
        /\ \E k \in DOMAIN first.saved :
             /\ first.saved[k].type # "opname"
             /\ first.saved[k].balance # first.pre[first.saved[k].id].balance

\* ------------------------------------------------------------------ C15
\* C15: a call of recalculate_forward on a partition whose tail is already
\* consistent (the call changes no field of any entry) saves no entry at
\* all, also when the tail contains count entries.
C15_RecalcWriteFree ==
  (Served /\ LastOp.pre = entries) => LastOp.saved = <<>>

\* ------------------------------------------------ request specification
\* The six writes of InventoryService served one at a time, as in Spec, with
\* the requests a caller of the service can make: any amount and kind, any
\* quantity, ids that no row has.

\* number of requests served in one explored run
MaxReqs == 2

AnyAmounts == {-1, 0, 1}
AnyKinds == {"stok_awal", "penerimaan", "pemakaian", "mutation", "opname", "lainnya"}
AnyQuantities == {-1, 0, 1}

CanServeRequest ==
  Len(ops) < MaxReqs /\ (IF ops = <<>> THEN TRUE ELSE ops[Len(ops)].ok)

RequestCreate ==
  /\ CanServeRequest
  /\ \E org \in Orgs, d \in Dates, t \in AnyKinds, a \in AnyAmounts :
       LET req == Req(org, 0, d, a, t, 0)
       IN Commit("create", req, CreateTransaction(entries, history, req))

RequestMutation ==
  /\ CanServeRequest
  /\ \E from \in Orgs, d \in Dates, q \in AnyQuantities : \E to \in Orgs \ {from} :
       LET req == Req(from, 0, d, q, "mutation", to)
       IN Commit("mutation", req, CreateMutation(entries, history, req))

RequestOpname ==
  /\ CanServeRequest
  /\ \E org \in Orgs, d \in Dates, p \in PhysQtys :
       LET req == Req(org, 0, d, p, "opname", 0)
       IN Commit("opname", req, CreateOpname(entries, history, req))

\* the ids of the rows of a table, and one id no row has
IdsAndMissing(T) == 1..(Len(T) + 1)

RequestUpdate ==
  /\ CanServeRequest
  /\ \E id \in IdsAndMissing(entries), d \in Dates, a \in Amounts :
       LET req == Req(0, id, d, a, "", 0)
       IN Commit("update", req, UpdateTransaction(entries, history, req))

RequestDelete ==
  /\ CanServeRequest
  /\ \E id \in IdsAndMissing(entries) :
       LET req == Req(0, id, 0, 0, "", 0)
       IN Commit("delete", req, DeleteTransaction(entries, history, req))

RequestRollback ==
  /\ CanServeRequest
  /\ \E hid \in IdsAndMissing(history) :
       LET req == Req(0, hid, 0, 0, "", 0)
       IN Commit("rollback", req, RollbackTransaction(entries, history, req))

NextRequest ==
  \/ RequestCreate
  \/ RequestMutation
  \/ RequestOpname
  \/ RequestUpdate
  \/ RequestDelete
  \/ RequestRollback

\* the committed tables the requests arrive at: empty, after one create, and
\* after that create and the delete of its entry
CreatedBase == CreateTransaction(<<>>, <<>>, Req(1, 0, 1, 1, "penerimaan", 0))
DeletedBase ==
  DeleteTransaction(CreatedBase.entries, CreatedBase.history,
                    Req(0, CreatedBase.inv, 0, 0, "", 0))

InitRequest ==
  /\ ops = <<>>
  /\ tx = [p \in Procs |-> IdleTx]
  /\ base = <<>>
  /\ \E r \in {Ok(<<>>, <<>>, 0), CreatedBase, DeletedBase} :
       /\ entries = r.entries
       /\ history = r.history

SpecRequest == InitRequest /\ [][NextRequest]_vars

\* ------------------------------------------------------------------ C18
\* the messages of the argument checks of CreateTransaction
ValidationErrors ==
  {"amount cannot be zero", "pemakaian amount must be negative",
   "penerimaan amount must be positive", "invalid transaction type"}

\* the last request was a create the contract refuses
InvalidCreate ==
  /\ Served
  /\ LastOp.op = "create"
  /\ \/ LastOp.req.amount = 0
     \/ LastOp.req.type = "penerimaan" /\ LastOp.req.amount < 0
     \/ LastOp.req.type = "pemakaian" /\ LastOp.req.amount > 0
     \/ LastOp.req.type \notin {"stok_awal", "penerimaan", "pemakaian"}

\* C18: create rejects with a validation error, and without changing
\* entries or history, every request with amount = 0, every receipt with
\* amount < 0, every issue with amount > 0 and every kind outside
\* {first_stock, receipt, issue}.
C18_CreateValidation ==
  InvalidCreate =>
    /\ ~LastOp.ok
    /\ LastOp.err \in ValidationErrors
    /\ NothingWritten

\* a create of kind opname or mutation with a non-zero amount, refused in a
\* partition that has entries
C18_Witness ==
  /\ InvalidCreate
  /\ ~LastOp.ok
  /\ LastOp.req.type \in {"mutation", "opname"}
  /\ LastOp.req.amount # 0
  /\ Live(LastOp.pre, LastOp.req.org) # {}

\* ------------------------------------------------------------------ C19
\* C19: a mutation request with qty < 1 (zero or negative) is rejected with
\* an error and inserts no entry and no history record.
C19_MutationQuantity ==
  (Served /\ LastOp.op = "mutation" /\ LastOp.req.amount < 1) =>
    /\ ~LastOp.ok
    /\ NothingWritten

\* ------------------------------------------------------------------ C20
\* the last request was an update or delete addressed to an id that no live
\* entry has, or a rollback addressed to an id that no history record has
MissingTarget ==
  /\ Served
  /\ \/ /\ LastOp.op \in {"update", "delete"}
        /\ \/ LastOp.req.id \notin DOMAIN LastOp.pre
           \/ LastOp.pre[LastOp.req.id].deleted
     \/ /\ LastOp.op = "rollback"
        /\ LastOp.req.id \notin DOMAIN LastOp.preh

\* C20: update and delete addressed to an entry id that does not exist or
\* that is already soft-deleted, and rollback addressed to a history id that
\* does not exist, fail with not found and change no entry and no history
\* record.
C20_NotFound ==
  MissingTarget =>
    /\ ~LastOp.ok
    /\ LastOp.err = "record not found"
    /\ NothingWritten

\* an update refused because its entry is soft-deleted
C20_Witness ==
  /\ MissingTarget
  /\ ~LastOp.ok
  /\ LastOp.op = "update"
  /\ LastOp.req.id \in DOMAIN LastOp.pre

\* ------------------------------------------------- fault specification
\* One write at a time, statement by statement.  Every write of
\* InventoryService runs its statements on the handle tx of
\* s.DB.Transaction: they are seen by the transaction only, until the
\* function returns nil and the transaction commits.  A statement (or the
\* commit) may fail in the store: the function returns the error and
\* s.DB.Transaction rolls the transaction back.

\* writes served in one explored run
MaxTxs == 2

\* a write statement: the handle it runs on ("tx": the transaction; "db":
\* the connection pool, committed at once), the rows it inserts or saves and
\* the history records it inserts
Statement(name, rows, hist) ==
  [stmt |-> name, via |-> "tx", rows |-> rows, hist |-> hist]

\* tx.Create(&inventory)
CreateStatement(inv) == Statement("create_inventory", <<inv>>, <<>>)

\* tx.Save(&existing) with DeletedAt set
SoftDeleteStatement(S, id) == Statement("save_deleted", <<SoftDelete(S, id)[id]>>, <<>>)

\* createHistory: tx.Create(&history)
HistoryStatement(H, S, inv, action) ==
  Statement("create_history", <<>>, <<createHistory(H, S, inv, action)[Len(H) + 1]>>)

\* RecalcStatements with a slip: the rows are saved through the connection
\* pool (r.DB), not through the transaction handed in.
RecalcStatements_ViaDB(S, org, fromDate) ==
  LET batchUpdates == RecalcBatch(S, OrderAsc(S, LiveTail(S, org, fromDate)),
                                  StartBalance(S, org, fromDate))
  IN [k \in DOMAIN batchUpdates |->
        [stmt |-> "save_recalc", via |-> "db", rows |-> <<batchUpdates[k]>>,
         hist |-> <<>>]]

\* RecalculateForward: one tx.Save(&inv) per row of batchUpdates
RecalcStatements(S, org, fromDate) ==
  LET batchUpdates == RecalcBatch(S, OrderAsc(S, LiveTail(S, org, fromDate)),
                                  StartBalance(S, org, fromDate))
  IN [k \in DOMAIN batchUpdates |->
        Statement("save_recalc", <<batchUpdates[k]>>, <<>>)]

\* the tables after a statement: saved rows replace the row of their id,
\* created rows and records are appended
Apply(T, st) ==
  LET created == SelectSeq(st.rows, LAMBDA r : r.id > Len(T.entries))
  IN [entries |-> SaveAll(T.entries, st.rows) \o created,
      history |-> T.history \o st.hist]

\* the statements of a write on the tables (S, H): none when the write
\* returns an error of its own before its first statement
Rejected(r) == [ok |-> FALSE, err |-> r.err, stmts |-> <<>>, inv |-> 0]
Planned(stmts, inv) == [ok |-> TRUE, err |-> "", stmts |-> stmts, inv |-> inv]

CreateTransactionStatements(S, H, req) ==
  LET r == CreateTransaction(S, H, req)
  IN IF ~r.ok THEN Rejected(r)
     ELSE
       LET id == Len(S) + 1
           prevBalance == GetBalanceAt(S, req.org, req.date)
           inventory == NewInventory(id, req.org, req.date, req.amount,
                          prevBalance + req.amount, req.type,
                          Nil, Nil, Nil, Nil, Nil, Nil, id)
           S1 == Insert(S, inventory)
       IN Planned(<<CreateStatement(inventory),
                    HistoryStatement(H, S1, inventory, "CREATE")>>
                    \o RecalcStatements(S1, req.org, req.date), id)

CreateMutationStatements(S, H, req) ==
  LET r == CreateMutation(S, H, req)
  IN IF ~r.ok THEN Rejected(r)
     ELSE
       LET sid == Len(S) + 1
           did == Len(S) + 2
           refID == Ptr(sid)
           sourceInv == NewInventory(sid, req.org, req.date, -req.amount,
                          GetBalanceAt(S, req.org, req.date) - req.amount,
                          "mutation", refID, Ptr(req.org), Ptr(req.to),
                          Nil, Nil, Nil, sid)
           destInv == NewInventory(did, req.to, req.date, req.amount,
                          GetBalanceAt(S, req.to, req.date) + req.amount,
                          "mutation", refID, Ptr(req.org), Ptr(req.to),
                          Nil, Nil, Nil, did)
           S1 == Insert(Insert(S, sourceInv), destInv)
           H1 == createHistory(H, S1, sourceInv, "MUTATION_OUT")
           S2 == RecalculateForward(S1, req.org, req.date)
       IN Planned(<<CreateStatement(sourceInv), CreateStatement(destInv),
                    HistoryStatement(H, S1, sourceInv, "MUTATION_OUT"),
                    HistoryStatement(H1, S1, destInv, "MUTATION_IN")>>
                    \o RecalcStatements(S1, req.org, req.date)
                    \o RecalcStatements(S2, req.to, req.date), sid)

CreateOpnameStatements(S, H, req) ==
  LET systemBalance == GetBalanceAt(S, req.org, req.date)
      difference == req.amount - systemBalance
      id == Len(S) + 1
      inventory == NewInventory(id, req.org, req.date, difference, req.amount,
                     "opname", Nil, Nil, Nil,
                     Ptr(req.amount), Ptr(systemBalance), Ptr(difference), id)
      S1 == Insert(S, inventory)
  IN Planned(<<CreateStatement(inventory),
               HistoryStatement(H, S1, inventory, "OPNAME")>>
               \o RecalcStatements(S1, req.org, req.date), id)

UpdateTransactionStatements(S, H, req) ==
  LET r == UpdateTransaction(S, H, req)
  IN IF ~r.ok THEN Rejected(r)
     ELSE
       LET existing == S[req.id]
           H1 == createHistory(H, S, existing, "UPDATE_BEFORE")
           S1 == SoftDelete(S, existing.id)
           id == Len(S1) + 1
           prevBalance == getBalanceBeforeDate(S1, existing.org, req.date, existing.id)
           isMut == existing.type = "mutation"
           isOpn == existing.type = "opname"
           newInventory ==
             IF isOpn
             THEN NewInventory(id, existing.org, req.date, req.amount,
                    prevBalance + req.amount, "opname", existing.ref_id, Nil, Nil,
                    Ptr(prevBalance + req.amount), Ptr(prevBalance),
                    Ptr(req.amount), id)
             ELSE NewInventory(id, existing.org, req.date, req.amount,
                    prevBalance + req.amount, existing.type, existing.ref_id,
                    IF isMut THEN existing.from_org ELSE Nil,
                    IF isMut THEN existing.to_org ELSE Nil,
                    Nil, Nil, Nil, id)
           S2 == Insert(S1, newInventory)
           earliestDate == IF req.date < existing.txn_date
                           THEN req.date ELSE existing.txn_date
       IN Planned(<<HistoryStatement(H, S, existing, "UPDATE_BEFORE"),
                    SoftDeleteStatement(S, existing.id),
                    CreateStatement(newInventory)>>
                    \o (IF isOpn THEN <<>>
                        ELSE <<HistoryStatement(H1, S2, newInventory, "UPDATE_AFTER")>>)
                    \o RecalcStatements(S2, existing.org,
                                        IF isOpn THEN req.date ELSE earliestDate),
                  id)

DeleteTransactionStatements(S, H, req) ==
  LET r == DeleteTransaction(S, H, req)
  IN IF ~r.ok THEN Rejected(r)
     ELSE
       LET inventory == S[req.id]
           S1 == SoftDelete(S, inventory.id)
       IN Planned(<<HistoryStatement(H, S, inventory, "DELETE_BEFORE"),
                    SoftDeleteStatement(S, inventory.id)>>
                    \o RecalcStatements(S1, inventory.org, inventory.txn_date),
                  inventory.id)

RollbackTransactionStatements(S, H, req) ==
  LET r == RollbackTransaction(S, H, req)
  IN IF ~r.ok THEN Rejected(r)
     ELSE
       LET h == H[req.id]
           tail == OrderAsc(S, LiveTail(S, h.org, h.snapshot_from_date))
           S1 == SoftDeleteTail(S, h.org, h.snapshot_from_date)
           S2 == RestoreItems(S1, Deref(SnapshotData(h)), h.org)
       IN Planned(<<Statement("update_tail",
                              [k \in DOMAIN tail |-> S1[tail[k]]], <<>>)>>
                    \o [k \in 1..(Len(S2) - Len(S1)) |->
                          CreateStatement(S2[Len(S1) + k])]
                    \o RecalcStatements(S2, h.org, h.snapshot_from_date)
                    \o <<Statement("create_history", <<>>,
                                    <<r.history[Len(H) + 1]>>)>>, 0)

\* no store transaction is open
NoTx ==
  [pc |-> "none", op |-> "", req |-> Req(0, 0, 0, 0, "", 0), plan |-> <<>>,
   done |-> 0, inv |-> 0,
   work |-> [entries |-> <<>>, history |-> <<>>],
   pre |-> [entries |-> <<>>, history |-> <<>>]]

InitFault ==
  /\ entries = <<>>
  /\ history = <<>>
  /\ ops = <<>>
  /\ tx = NoTx
  /\ base = <<>>

CanStart ==
  /\ tx.pc # "open"
  /\ Len(ops) < MaxTxs
  /\ IF ops = <<>> THEN TRUE ELSE ops[Len(ops)].ok

\* s.DB.Transaction(func(tx)): the write begins; a write that returns an
\* error of its own before its first statement is rolled back at once
Start(op, req, p) ==
  /\ IF p.ok
     THEN /\ tx' = [pc |-> "open", op |-> op, req |-> req, plan |-> p.stmts,
                    done |-> 0, inv |-> p.inv,
                    work |-> [entries |-> entries, history |-> history],
                    pre |-> [entries |-> entries, history |-> history]]
          /\ ops' = ops
     ELSE /\ tx' = NoTx
          /\ ops' = Append(ops, [op |-> op, req |-> req, ok |-> FALSE,
                                 err |-> p.err, inv |-> 0,
                                 pre |-> entries, preh |-> history])
  /\ UNCHANGED <<entries, history, base>>

StartCreate ==
  /\ CanStart
  /\ \E org \in Orgs, d \in Dates, ta \in CreateInputs :
       LET req == Req(org, 0, d, ta[2], ta[1], 0)
       IN Start("create", req, CreateTransactionStatements(entries, history, req))

StartMutation ==
  /\ CanStart
  /\ \E from \in Orgs, d \in Dates, q \in Quantities : \E to \in Orgs \ {from} :
       LET req == Req(from, 0, d, q, "mutation", to)
       IN Start("mutation", req, CreateMutationStatements(entries, history, req))

StartOpname ==
  /\ CanStart
  /\ \E org \in Orgs, d \in Dates, p \in PhysQtys :
       LET req == Req(org, 0, d, p, "opname", 0)
       IN Start("opname", req, CreateOpnameStatements(entries, history, req))

StartUpdate ==
  /\ CanStart
  /\ \E id \in DOMAIN entries, d \in Dates, a \in Amounts :
       LET req == Req(0, id, d, a, "", 0)
       IN Start("update", req, UpdateTransactionStatements(entries, history, req))

StartDelete ==
  /\ CanStart
  /\ \E id \in DOMAIN entries :
       LET req == Req(0, id, 0, 0, "", 0)
       IN Start("delete", req, DeleteTransactionStatements(entries, history, req))

StartRollback ==
  /\ CanStart
  /\ \E hid \in DOMAIN history :
       LET req == Req(0, hid, 0, 0, "", 0)
       IN Start("rollback", req, RollbackTransactionStatements(entries, history, req))

\* the next statement of the write runs: on handle tx its effect is the
\* transaction's own; on the connection pool it is committed at once
RunStatement ==
  /\ tx.pc = "open"
  /\ tx.done < Len(tx.plan)
  /\ LET st == tx.plan[tx.done + 1]
         T == Apply([entries |-> entries, history |-> history], st)
     IN /\ tx' = [tx EXCEPT !.work = Apply(tx.work, st), !.done = tx.done + 1]
        /\ entries' = IF st.via = "db" THEN T.entries ELSE entries
        /\ history' = IF st.via = "db" THEN T.history ELSE history
  /\ UNCHANGED <<ops, base>>

\* the next statement, or the commit, fails in the store: the function
\* returns the error and s.DB.Transaction rolls back
StoreFails ==
  /\ tx.pc = "open"
  /\ tx' = [tx EXCEPT !.pc = "aborted"]
  /\ ops' = Append(ops, [op |-> tx.op, req |-> tx.req, ok |-> FALSE,
                         err |-> "store failure", inv |-> 0,
                         pre |-> tx.pre.entries, preh |-> tx.pre.history])
  /\ UNCHANGED <<entries, history, base>>

\* the function returns nil: s.DB.Transaction commits
CommitWrite ==
  /\ tx.pc = "open"
  /\ tx.done = Len(tx.plan)
  /\ entries' = tx.work.entries
  /\ history' = tx.work.history
  /\ tx' = [tx EXCEPT !.pc = "committed"]
  /\ ops' = Append(ops, [op |-> tx.op, req |-> tx.req, ok |-> TRUE, err |-> "",
                         inv |-> tx.inv,
                         pre |-> tx.pre.entries, preh |-> tx.pre.history])
  /\ UNCHANGED base

NextFault ==
  \/ StartCreate
  \/ StartMutation
  \/ StartOpname
  \/ StartUpdate
  \/ StartDelete
  \/ StartRollback
  \/ RunStatement
  \/ StoreFails
  \/ CommitWrite

SpecFault == InitFault /\ [][NextFault]_vars

\* a committed write leaves the tables the write computes in one piece
WriteOf(op, S, H, req) ==
  CASE op = "create" -> CreateTransaction(S, H, req)
    [] op = "mutation" -> CreateMutation(S, H, req)
    [] op = "opname" -> CreateOpname(S, H, req)
    [] op = "update" -> UpdateTransaction(S, H, req)
    [] op = "delete" -> DeleteTransaction(S, H, req)
    [] op = "rollback" -> RollbackTransaction(S, H, req)

StatementsAgree ==
  (Served /\ LastOp.ok) =>
    LET r == WriteOf(LastOp.op, LastOp.pre, LastOp.preh, LastOp.req)
    IN r.ok /\ entries = r.entries /\ history = r.history

\* ------------------------------------------------------------------ C11
\* C11: if any step of a write (create, mutation, count, update, delete,
\* rollback) fails, a store failure while inserting a history record or
\* while saving a row during forward recalculation included, the committed
\* entries (live and soft-deleted, with their balances) and history records
\* are those from before the write started; nothing of a write is
\* committed before the write commits.
C11_Atomicity ==
  /\ (Served /\ ~LastOp.ok) => NothingWritten
  /\ tx.pc = "open" => (entries = tx.pre.entries /\ history = tx.pre.history)

\* a write rolled back by a store failure at a save of the forward
\* recalculation, after it had inserted an entry and a history record
C11_Witness ==
  /\ tx.pc = "aborted"
  /\ tx.done < Len(tx.plan)
  /\ tx.plan[tx.done + 1].stmt = "save_recalc"
  /\ Len(tx.work.entries) > Len(entries)
  /\ Len(tx.work.history) > Len(history)

\* ------------------------------------------------------------------ C21
\* the last request is a rollback addressed to an existing history record
\* whose action is outside the set the specification allows
RollbackOfUnsupported ==
  /\ Served
  /\ LastOp.op = "rollback"
  /\ LastOp.req.id \in DOMAIN LastOp.preh
  /\ LastOp.preh[LastOp.req.id].action \notin
       {"CREATE", "MUTATION_IN", "MUTATION_OUT", "OPNAME",
        "UPDATE_BEFORE", "UPDATE_AFTER", "DELETE_BEFORE"}

\* C21: a rollback addressed to a history record whose action is ROLLBACK
\* (or any other action outside the allowed set) fails with the unsupported
\* error, soft-deletes nothing, inserts nothing and appends no history
\* record.
C21_RollbackOfRollback ==
  RollbackOfUnsupported =>
    /\ ~LastOp.ok
    /\ LastOp.err = "unsupported history action for rollback"
    /\ NothingWritten

\* a rollback addressed to the ROLLBACK record of an earlier, successful
\* rollback has been served
C21_Witness ==
  /\ RollbackOfUnsupported
  /\ LastOp.preh[LastOp.req.id].action = "ROLLBACK"
  /\ Len(ops) >= 2
  /\ ops[Len(ops) - 1].op = "rollback" /\ ops[Len(ops) - 1].ok

\* ------------------------------------------------------------------ C24
\* the dates a balance can be asked at: the sampled dates, one before and
\* one after them
QueryDates == {0} \cup Dates \cup {3}

\* the balance of the last entry dated at or before t of o, the live entries
\* of a partition in replay order; 0 when there is none
LastLiveBalance(S, o, t) ==
  LET ks == {k \in DOMAIN o : S[o[k]].txn_date <= t}
  IN IF ks = {} THEN 0
     ELSE S[o[CHOOSE k \in ks : \A l \in ks : l <= k]].balance

\* the table without its soft-deleted rows and without the rows of the
\* other partitions
OnlyLiveOf(S, org) ==
  LET keep(e) == e.org = org /\ ~e.deleted
  IN SelectSeq(S, keep)

\* C24: balance_at(org, item, t) is the stored balance of the last live
\* entry, in (txn_date, created_at) order, among the entries of the
\* partition with txn_date <= t, and 0 when there is none; soft-deleted
\* entries and entries of other partitions do not influence the result.
C24_BalanceAt ==
  \A org \in Orgs :
    LET o == LiveSeq(entries, org)
        own == OnlyLiveOf(entries, org)
    IN \A t \in QueryDates :
         /\ GetBalanceAt(entries, org, t) = LastLiveBalance(entries, o, t)
         /\ GetBalanceAt(entries, org, t) = GetBalanceAt(own, org, t)

\* a partition asked at a date t at which it has a live entry, a soft-deleted
\* entry of another balance, and a later live entry dated after t, while
\* another partition holds an entry as well
C24_Witness ==
  \E org \in Orgs, t \in QueryDates :
    /\ \E i \in Live(entries, org) : entries[i].txn_date <= t
    /\ \E i \in Live(entries, org) : entries[i].txn_date > t
    /\ \E i \in DOMAIN entries :
         /\ entries[i].org = org /\ entries[i].deleted
         /\ entries[i].txn_date <= t
         /\ entries[i].balance # GetBalanceAt(entries, org, t)
    /\ \E i \in DOMAIN entries : entries[i].org # org

\* ------------------------------------------------------------------ C25
\* the last request is a successful create in a partition that was
\* consistent when the request arrived
CreateInConsistent ==
  /\ Served
  /\ LastOp.op = "create" /\ LastOp.ok
  /\ BalanceConsistent(LastOp.pre, LastOp.req.org)

\* C25: a successful create of a delta entry with amount a at txn_date d in
\* a consistent partition yields an entry whose balance, as returned to the
\* caller and as stored after commit, is balance_at(d) evaluated just before
\* the create plus a, whatever the dates of the existing entries.
C25_CreateBalance ==
  CreateInConsistent =>
    LET req == LastOp.req
        expected == GetBalanceAt(LastOp.pre, req.org, req.date) + req.amount
    IN /\ LastOp.ret # Nil
       /\ Deref(LastOp.ret).balance = expected
       /\ LastOp.inv \in Live(entries, req.org)
       /\ entries[LastOp.inv].txn_date = req.date
       /\ entries[LastOp.inv].amount = req.amount
       /\ entries[LastOp.inv].balance = expected

\* a create dated d into a partition that already held an entry dated d and
\* a later one, with a non-zero balance at d
C25_Witness ==
  /\ CreateInConsistent
  /\ \E i \in Live(LastOp.pre, LastOp.req.org) :
       LastOp.pre[i].txn_date = LastOp.req.date
  /\ \E i \in Live(LastOp.pre, LastOp.req.org) :
       LastOp.pre[i].txn_date > LastOp.req.date
  /\ GetBalanceAt(LastOp.pre, LastOp.req.org, LastOp.req.date) # 0

\* ------------------------------------------------------------------ C26
\* the last request is a successful update of a non-count entry
UpdateOfDelta ==
  /\ Served
  /\ LastOp.op = "update" /\ LastOp.ok
  /\ LastOp.pre[LastOp.req.id].type # "opname"

\* no live count entry of the partition is dated at or after d
NoCountFrom(S, org, d) ==
  \A i \in LiveTail(S, org, d) : S[i].type # "opname"

\* the update soft-deleted the addressed entry, and nothing else, and
\* inserted one live entry that keeps the partition, the kind, the ref_id
\* and the mutation organizations and takes the request's date and amount
ReplacedByOne ==
  LET old == LastOp.pre[LastOp.req.id]
      new == entries[Len(entries)]
  IN /\ Len(entries) = Len(LastOp.pre) + 1
     /\ \A i \in DOMAIN LastOp.pre :
          entries[i].deleted = (LastOp.pre[i].deleted \/ i = LastOp.req.id)
     /\ ~new.deleted
     /\ new.org = old.org /\ new.type = old.type /\ new.ref_id = old.ref_id
     /\ old.type = "mutation" =>
          new.from_org = old.from_org /\ new.to_org = old.to_org
     /\ new.txn_date = LastOp.req.date /\ new.amount = LastOp.req.amount

\* C26: a successful update of a non-count entry soft-deletes the entry and
\* inserts exactly one new live entry in the same partition with the same
\* kind and ref_id (and mutation organizations), the new date and the new
\* amount; when no count entry is dated at or after min(old date, new date)
\* the partition's current balance changes by new_amount - old_amount.
C26_UpdateOfDelta ==
  UpdateOfDelta =>
    LET old == LastOp.pre[LastOp.req.id]
        earliest == IF LastOp.req.date < old.txn_date
                    THEN LastOp.req.date ELSE old.txn_date
    IN /\ ReplacedByOne
       /\ NoCountFrom(LastOp.pre, old.org, earliest) =>
            GetCurrentBalance(entries, old.org)
              - GetCurrentBalance(LastOp.pre, old.org)
              = LastOp.req.amount - old.amount

\* ------------------------------------------- a ledger with a moved count
\* The serial specification, started from the tables four requests leave:
\* a count (physical_qty 2) and two receipts of +1, all dated 1 in partition
\* 1, and then an update that moves the count to date 2.  handleOpnameUpdate
\* recalculates from the count's new date only, so the two receipts keep the
\* balances 3 and 4 they had behind the count.
MovedCountBase ==
  LET r1 == CreateOpname(<<>>, <<>>, Req(1, 0, 1, 2, "opname", 0))
      r2 == CreateTransaction(r1.entries, r1.history, Req(1, 0, 1, 1, "penerimaan", 0))
      r3 == CreateTransaction(r2.entries, r2.history, Req(1, 0, 1, 1, "penerimaan", 0))
  IN UpdateTransaction(r3.entries, r3.history, Req(0, r1.inv, 2, 1, "", 0))

InitMoved ==
  /\ entries = MovedCountBase.entries
  /\ history = MovedCountBase.history
  /\ ops = <<>>
  /\ tx = [p \in Procs |-> IdleTx]
  /\ base = <<>>

SpecMoved == InitMoved /\ [][Next]_vars

\* ------------------------------------------------------------------ C27
\* the last request is a successful delete of a delta entry
DeleteOfDelta ==
  /\ Served
  /\ LastOp.op = "delete" /\ LastOp.ok
  /\ LastOp.pre[LastOp.req.id].type # "opname"

\* the live entries of e's partition that follow e in replay order with no
\* live count entry between e and them, themselves included
UpToNextCount(S, id) ==
  LET after == {i \in Live(S, S[id].org) : Before(S[id], S[i])}
      counts == {c \in after : S[c].type = "opname"}
  IN {i \in after : \A c \in counts : c # i /\ Before(S[i], S[c])}

\* C27: a successful delete of a live delta entry e with amount a
\* soft-deletes exactly e, leaves the stored balance of every entry that
\* precedes e in (txn_date, created_at) order unchanged, and lowers by a the
\* stored balance of every live entry after e up to, but not including, the
\* next count entry.
C27_DeleteOfDelta ==
  DeleteOfDelta =>
    LET S == LastOp.pre
        id == LastOp.req.id
        e == S[id]
    IN /\ Len(entries) = Len(S)
       /\ \A i \in DOMAIN S : entries[i].deleted = (S[i].deleted \/ i = id)
       /\ \A i \in DOMAIN S :
            (S[i].org = e.org /\ Before(S[i], e)) =>
              entries[i].balance = S[i].balance
       /\ \A i \in UpToNextCount(S, id) :
            entries[i].balance = S[i].balance - e.amount

\* ------------------------------------------------------------------ C28
\* the last request is a successful mutation
MutationDone == Served /\ LastOp.op = "mutation" /\ LastOp.ok

\* the two entries the mutation inserted: live, of kind mutation, sharing a
\* ref_id no earlier entry carries, both naming A as from and B as to, the
\* one in A with amount -q and the one in B with amount +q
TwoLegs ==
  LET S == LastOp.pre
      req == LastOp.req
      src == entries[Len(S) + 1]
      dst == entries[Len(S) + 2]
  IN /\ Len(entries) = Len(S) + 2
     /\ \A i \in DOMAIN S : entries[i].deleted = S[i].deleted
     /\ ~src.deleted /\ ~dst.deleted
     /\ src.type = "mutation" /\ dst.type = "mutation"
     /\ src.ref_id # Nil /\ src.ref_id = dst.ref_id
     /\ \A i \in DOMAIN S : S[i].ref_id # src.ref_id
     /\ src.from_org = Ptr(req.org) /\ src.to_org = Ptr(req.to)
     /\ dst.from_org = Ptr(req.org) /\ dst.to_org = Ptr(req.to)
     /\ src.org = req.org /\ src.amount = -req.amount
     /\ dst.org = req.to /\ dst.amount = req.amount
     /\ src.txn_date = req.date /\ dst.txn_date = req.date

\* C28: a successful mutation of qty q from partition A to partition B at
\* txn_date t inserts exactly two live entries of kind mutation that share
\* one newly assigned ref_id and carry from_org_id = A and to_org_id = B, one
\* in A with amount -q and one in B with amount +q; afterwards balance_at(A,
\* t) is q lower and balance_at(B, t) is q higher than before.
C28_MutationEffect ==
  MutationDone =>
    LET S == LastOp.pre
        req == LastOp.req
    IN /\ TwoLegs
       /\ GetBalanceAt(entries, req.org, req.date)
            = GetBalanceAt(S, req.org, req.date) - req.amount
       /\ GetBalanceAt(entries, req.to, req.date)
            = GetBalanceAt(S, req.to, req.date) + req.amount

\* ------------------------------------------------------------------ C29
\* the last request is a successful count
CountDone == Served /\ LastOp.op = "opname" /\ LastOp.ok

\* C29: a successful count with physical quantity p at txn_date d stores a
\* count entry with balance = p, system_qty = balance_at(org, item, d)
\* evaluated just before the count, difference = p - system_qty and amount =
\* difference, and afterwards balance_at(org, item, d) = p.
C29_CountEffect ==
  CountDone =>
    LET S == LastOp.pre
        req == LastOp.req
        e == entries[LastOp.inv]
        systemQty == GetBalanceAt(S, req.org, req.date)
    IN /\ Len(entries) = Len(S) + 1 /\ LastOp.inv = Len(entries)
       /\ e.type = "opname" /\ ~e.deleted
       /\ e.org = req.org /\ e.txn_date = req.date
       /\ e.balance = req.amount
       /\ e.physical_qty = Ptr(req.amount)
       /\ e.system_qty = Ptr(systemQty)
       /\ e.difference = Ptr(req.amount - systemQty)
       /\ e.amount = req.amount - systemQty
       /\ GetBalanceAt(entries, req.org, req.date) = req.amount

\* ------------------------------------------------------------------ C30
\* the last request is a successful update of a count entry
UpdateOfCount ==
  /\ Served
  /\ LastOp.op = "update" /\ LastOp.ok
  /\ LastOp.pre[LastOp.req.id].type = "opname"

\* C30: after a successful update of a count entry with new date d' and
\* supplied amount a, the replacing live count entry has system_qty = prev,
\* difference = a, amount = a, physical_qty = prev + a and balance = prev + a,
\* where prev is the balance of the latest live entry dated strictly before
\* d' other than the updated entry; also when other live entries are dated
\* exactly d'.
C30_CountUpdate ==
  UpdateOfCount =>
    LET S == LastOp.pre
        req == LastOp.req
        old == S[req.id]
        prev == getBalanceBeforeDate(S, old.org, req.date, req.id)
        e == entries[Len(entries)]
    IN /\ Len(entries) = Len(S) + 1
       /\ e.type = "opname" /\ ~e.deleted
       /\ e.org = old.org /\ e.txn_date = req.date
       /\ e.system_qty = Ptr(prev)
       /\ e.difference = Ptr(req.amount)
       /\ e.amount = req.amount
       /\ e.physical_qty = Ptr(prev + req.amount)
       /\ e.balance = prev + req.amount

\* ------------------------------------------------------------------ C23
\* no two entries of one partition share (txn_date, created_at)
ReplayOrderTotal ==
  \A i, j \in DOMAIN entries :
    (i # j /\ entries[i].org = entries[j].org
       /\ entries[i].txn_date = entries[j].txn_date)
      => entries[i].created_at # entries[j].created_at

\* transaction p commits in this step
Commits(p) == tx[p].pc = "save" /\ tx'[p].pc = "done" /\ tx'[p].ok

\* the entry p inserted has a created_at above that of every entry of its
\* partition committed so far
AboveCommitted(p) ==
  \A i \in DOMAIN CommittedView :
    entries[i].org = entries[tx[p].id].org
      => entries[i].created_at < entries[tx[p].id].created_at

\* C23: the replay order is total: no two entries of one partition share
\* the same (txn_date, created_at), and the created_at values given to the
\* inserts into one partition are strictly increasing in commit order, also
\* when the inserts come from concurrent writers.
C23_CreatedAtOrder ==
  [][/\ ReplayOrderTotal
     /\ \A p \in Procs : Commits(p) => AboveCommitted(p)]_vars

\* ------------------------------------------------ concurrent mutations
\* Two CreateMutation requests on one item run concurrently, each in its own
\* store transaction (s.DB.Transaction, read committed).  The code takes no
\* lock of its own; a row is write-locked by the transaction that saved it
\* (tx.Save in RecalculateForward) until that transaction ends, and an
\* UPDATE of a row locked by another transaction waits.  When two
\* transactions wait for each other the store ends one of them with an
\* error, which the transaction function returns.

\* a mutation handler that has not begun its store transaction
IdleMutation ==
  [pc |-> "idle", req |-> Req(0, 0, 0, 0, "", 0), ok |-> FALSE, err |-> "",
   ids |-> {}, hist |-> <<>>, part |-> 0, batch |-> <<>>, saved |-> <<>>]

\* the transaction of p is open
InFlight(p) == tx[p].pc \notin {"idle", "done", "aborted"}

\* rows p inserted that no other reader sees: p has not committed
Unseen(p) == IF tx[p].ok THEN {} ELSE tx[p].ids

\* what s.Repo.DB reads: committed rows only
CommittedRows ==
  [i \in DOMAIN entries \ UNION {Unseen(q) : q \in Procs} |-> entries[i]]

\* what tx reads: committed rows and the transaction's own writes
OwnView(p) ==
  SaveAll([i \in DOMAIN CommittedRows \cup tx[p].ids |-> entries[i]], tx[p].saved)

\* the open transaction, other than p, that holds the write lock of row id
Holders(p, id) ==
  {q \in Procs \ {p} :
     InFlight(q) /\ \E k \in DOMAIN tx[q].saved : tx[q].saved[k].id = id}

\* p is at a tx.Save whose row another transaction has locked
WaitsFor(p) ==
  IF tx[p].pc = "save" /\ tx[p].batch # <<>>
  THEN Holders(p, Head(tx[p].batch).id)
  ELSE {}

\* lines 172-180: begin, the stock check read through s.Repo.DB
BeginMutation(p) ==
  /\ tx[p].pc = "idle"
  /\ \E from \in Orgs, d \in Dates, q \in Quantities : \E to \in Orgs \ {from} :
       LET req == Req(from, 0, d, q, "mutation", to)
           short == GetBalanceAt(CommittedRows, from, d) < q
       IN tx' = [tx EXCEPT
                   ![p].req = req,
                   ![p].pc = IF short THEN "done" ELSE "insert",
                   ![p].err = IF short
                              THEN "insufficient stock in source organization"
                              ELSE ""]
  /\ UNCHANGED <<entries, history, ops, base>>

\* lines 181-223: the two legs, their balances read through s.Repo.DB,
\* and the two tx.Create
InsertLegs(p) ==
  /\ tx[p].pc = "insert"
  /\ LET req == tx[p].req
         sid == Len(entries) + 1
         did == Len(entries) + 2
         refID == Ptr(sid)
         sourceInv == NewInventory(sid, req.org, req.date, -req.amount,
                        GetBalanceAt(CommittedRows, req.org, req.date) - req.amount,
                        "mutation", refID, Ptr(req.org), Ptr(req.to),
                        Nil, Nil, Nil, sid)
         destInv == NewInventory(did, req.to, req.date, req.amount,
                        GetBalanceAt(CommittedRows, req.to, req.date) + req.amount,
                        "mutation", refID, Ptr(req.org), Ptr(req.to),
                        Nil, Nil, Nil, did)
     IN /\ entries' = Insert(Insert(entries, sourceInv), destInv)
        /\ tx' = [tx EXCEPT ![p].ids = {sid, did}, ![p].pc = "history"]
  /\ UNCHANGED <<history, ops, base>>

\* lines 224-229: createHistory for MUTATION_OUT and MUTATION_IN
WriteHistories(p) ==
  /\ tx[p].pc = "history"
  /\ LET V == OwnView(p)
         sid == CHOOSE i \in tx[p].ids : entries[i].org = tx[p].req.org
         did == CHOOSE i \in tx[p].ids : entries[i].org = tx[p].req.to
         H1 == createHistory(<<>>, V, V[sid], "MUTATION_OUT")
     IN tx' = [tx EXCEPT
                 ![p].hist = createHistory(H1, V, V[did], "MUTATION_IN"),
                 ![p].part = tx[p].req.org,
                 ![p].pc = "recalc"]
  /\ UNCHANGED <<entries, history, ops, base>>

\* lines 230, 233: RecalculateForward of the source partition, then of the
\* destination partition; its two queries and its loop
RecalcQuery(p) ==
  /\ tx[p].pc = "recalc"
  /\ LET V == OwnView(p)
         org == tx[p].part
         tail == OrderAsc(V, LiveTail(V, org, tx[p].req.date))
     IN tx' = [tx EXCEPT
                 ![p].batch = RecalcBatch(V, tail, StartBalance(V, org, tx[p].req.date)),
                 ![p].pc = "save"]
  /\ UNCHANGED <<entries, history, ops, base>>

\* tx.Save(&inv) of the next row of batchUpdates; waits while another
\* transaction holds the row's lock
SaveLocked(p) ==
  /\ tx[p].pc = "save"
  /\ tx[p].batch # <<>>
  /\ WaitsFor(p) = {}
  /\ tx' = [tx EXCEPT ![p].saved = Append(tx[p].saved, Head(tx[p].batch)),
                      ![p].batch = Tail(tx[p].batch)]
  /\ UNCHANGED <<entries, history, ops, base>>

\* line 230 returned nil: on to the destination partition
NextPartition(p) ==
  /\ tx[p].pc = "save"
  /\ tx[p].batch = <<>>
  /\ tx[p].part = tx[p].req.org
  /\ tx' = [tx EXCEPT ![p].part = tx[p].req.to, ![p].pc = "recalc"]
  /\ UNCHANGED <<entries, history, ops, base>>

\* line 233 returned nil: commit
CommitMutation(p) ==
  /\ tx[p].pc = "save"
  /\ tx[p].batch = <<>>
  /\ tx[p].part = tx[p].req.to
  /\ entries' = SaveAll(entries, tx[p].saved)
  /\ history' = history \o
       [k \in DOMAIN tx[p].hist |-> [tx[p].hist[k] EXCEPT !.id = Len(history) + k]]
  /\ tx' = [tx EXCEPT ![p].pc = "done", ![p].ok = TRUE, ![p].saved = <<>>]
  /\ UNCHANGED <<ops, base>>

\* p waits for a transaction that waits for p: the store ends p's statement
\* with an error, tx.Save returns it and the transaction is rolled back
DeadlockDetected(p) ==
  /\ \E q \in WaitsFor(p) : p \in WaitsFor(q)
  /\ tx' = [tx EXCEPT ![p].pc = "aborted", ![p].err = "deadlock detected",
                      ![p].batch = <<>>, ![p].saved = <<>>]
  /\ UNCHANGED <<entries, history, ops, base>>

\* the committed tables the two mutations arrive at: in each organization a
\* receipt of +1 dated 1 and a receipt of +1 dated 2
StockedBase ==
  LET r1 == CreateTransaction(<<>>, <<>>, Req(1, 0, 1, 1, "penerimaan", 0))
      r2 == CreateTransaction(r1.entries, r1.history, Req(1, 0, 2, 1, "penerimaan", 0))
      r3 == CreateTransaction(r2.entries, r2.history, Req(2, 0, 1, 1, "penerimaan", 0))
  IN CreateTransaction(r3.entries, r3.history, Req(2, 0, 2, 1, "penerimaan", 0))

InitMutation ==
  /\ entries = StockedBase.entries
  /\ history = StockedBase.history
  /\ ops = <<>>
  /\ tx = [p \in Procs |-> IdleMutation]
  /\ base = entries

NextMutation ==
  \E p \in Procs :
    \/ BeginMutation(p)
    \/ InsertLegs(p)
    \/ WriteHistories(p)
    \/ RecalcQuery(p)
    \/ SaveLocked(p)
    \/ NextPartition(p)
    \/ CommitMutation(p)
    \/ DeadlockDetected(p)

SpecMutation == InitMutation /\ [][NextMutation]_vars

\* ------------------------------------------------------------------ C22
\* the two mutations run in opposite directions
OppositeMutations ==
  /\ \A p \in Procs : tx[p].pc # "idle"
  /\ tx[1].req.org = tx[2].req.to /\ tx[1].req.to = tx[2].req.org

\* C22: two mutations of the same item running concurrently in opposite
\* directions never deadlock: at no time does each wait for the other, and
\* neither is ended without committing.
C22_NoMutationDeadlock ==
  OppositeMutations =>
    /\ ~(\A p \in Procs : WaitsFor(p) # {})
    /\ \A p \in Procs : tx[p].pc # "aborted"

\* ------------------------------------------------------------------ C31
\* the last request is a successful create, update or delete of a delta entry
DeltaWrite ==
  /\ Served
  /\ LastOp.ok
  /\ \/ LastOp.op = "create"
     \/ /\ LastOp.op \in {"update", "delete"}
        /\ LastOp.pre[LastOp.req.id].type # "opname"

\* the partition the write addresses, and the old and new dates of the entry
\* it writes
WriteOrg ==
  IF LastOp.op = "create" THEN LastOp.req.org ELSE LastOp.pre[LastOp.req.id].org
WriteDates ==
  CASE LastOp.op = "create" -> {LastOp.req.date}
    [] LastOp.op = "delete" -> {LastOp.pre[LastOp.req.id].txn_date}
    [] OTHER -> {LastOp.pre[LastOp.req.id].txn_date, LastOp.req.date}

\* the live count entries of the partition dated strictly after the write
ShieldingCounts ==
  {c \in Live(LastOp.pre, WriteOrg) :
     /\ LastOp.pre[c].type = "opname"
     /\ \A d \in WriteDates : d < LastOp.pre[c].txn_date}

\* everything of an entry but the fields recalculation derives for a count
Asserted(e) ==
  <<e.id, e.org, e.txn_date, e.type, e.ref_id, e.balance, e.physical_qty,
    e.created_at, e.deleted>>

Identity(e) == <<e.id, e.org, e.txn_date, e.type>>

\* C32: the ledger is append-only: no operation removes an entry or a
\* history record, no operation modifies an existing history record, and the
\* only change made to the txn_date, kind, partition or liveness of an
\* existing entry is the transition from live to soft-deleted.
C32_AppendOnly ==
  Served =>
    /\ Len(entries) >= Len(LastOp.pre)
    /\ Len(history) >= Len(LastOp.preh)
    /\ \A h \in DOMAIN LastOp.preh : history[h] = LastOp.preh[h]
    /\ \A i \in DOMAIN LastOp.pre :
         /\ Identity(entries[i]) = Identity(LastOp.pre[i])
         /\ LastOp.pre[i].deleted => entries[i].deleted

\* a rollback that soft-deleted a live entry, inserted an entry and appended
\* a record to a history that already held records
C32_Witness ==
  /\ Served
  /\ LastOp.op = "rollback" /\ LastOp.ok
  /\ LastOp.preh # <<>>
  /\ Len(history) > Len(LastOp.preh)
  /\ Len(entries) > Len(LastOp.pre)
  /\ \E i \in DOMAIN LastOp.pre : ~LastOp.pre[i].deleted /\ entries[i].deleted

\* ------------------------------------------------------------------ C33
\* the reference replay: the running value after the k-th entry of the
\* ordered tail o, started from start
RECURSIVE Running(_, _, _, _)
Running(S, o, k, start) ==
  IF k = 0 THEN start
  ELSE IF S[o[k]].type = "opname" THEN Deref(S[o[k]].physical_qty)
  ELSE Running(S, o, k - 1, start) + S[o[k]].amount

\* the last step was a call of RecalculateForward
Recalculated == Served /\ LastOp.op = "recalc"

\* C33: recalculate_forward(P, d) equals the reference replay: with start =
\* balance of the latest live entry dated strictly before d (0 if none),
\* after the call every live entry dated >= d has the balance the replay
\* gives (running + amount for a delta entry; physical_qty for a count
\* entry, whose system_qty, difference and amount are set from the running
\* value), and the call changes no entry dated before d, no amount of a
\* non-count entry, no stored physical_qty, and no entry's txn_date, kind or
\* liveness.
C33_RecalcIsReplay ==
  Recalculated =>
    LET S == LastOp.pre
        d == LastOp.date
        o == OrderAsc(S, {i \in DOMAIN S : S[i].org = RecalcOrg /\ ~S[i].deleted
                                            /\ S[i].txn_date >= d})
        start == getBalanceBeforeDate(S, RecalcOrg, d, 0)
    IN /\ DOMAIN entries = DOMAIN S
       /\ \A k \in DOMAIN o :
            LET e == entries[o[k]]
                before == Running(S, o, k - 1, start)
            IN /\ e.balance = Running(S, o, k, start)
               /\ e.type = "opname" =>
                    /\ e.system_qty = Ptr(before)
                    /\ e.difference = Ptr(Deref(S[o[k]].physical_qty) - before)
                    /\ e.amount = Deref(S[o[k]].physical_qty) - before
       /\ \A i \in DOMAIN S :
            /\ S[i].txn_date < d => entries[i] = S[i]
            /\ S[i].type # "opname" => entries[i].amount = S[i].amount
            /\ entries[i].physical_qty = S[i].physical_qty
            /\ Identity(entries[i]) = Identity(S[i])
            /\ entries[i].deleted = S[i].deleted

\* one call whose tail holds a delta entry and a count entry, and which
\* changed the balance of the one and the system_qty of the other
C33_Witness ==
  /\ Recalculated
  /\ Len(ops) = 1
  /\ \E i, c \in LiveTail(LastOp.pre, RecalcOrg, LastOp.date) :
       /\ LastOp.pre[i].type # "opname" /\ LastOp.pre[c].type = "opname"
       /\ entries[i].balance # LastOp.pre[i].balance
       /\ entries[c].system_qty # LastOp.pre[c].system_qty

\* ------------------------------------------------------------------ C34
\* the last request is a successful rollback
RolledBack == Served /\ LastOp.op = "rollback" /\ LastOp.ok

\* the history record the rollback addressed, and the snapshot it selected
RollbackOf == LastOp.preh[LastOp.req.id]
Selected == Deref(SnapshotData(RollbackOf))

\* entry e restores snapshot item it
Restores(e, it) ==
  /\ e.txn_date = it.txn_date /\ e.type = it.type /\ e.ref_id = it.ref_id
  /\ e.type # "opname" => e.amount = it.amount
  /\ e.type = "mutation" =>
       /\ e.from_org = LastOp.pre[it.inventory_id].from_org
       /\ e.to_org = LastOp.pre[it.inventory_id].to_org

\* C34: after a successful rollback of history record H the live entries of
\* H's partition dated >= H.snapshot_from_date are exactly one newly inserted
\* entry per item of the selected snapshot, in snapshot order, each with the
\* item's txn_date, kind and ref_id, the item's amount when it is a delta
\* entry, and for mutation items the from_org_id/to_org_id of the original
\* entry; every entry that was live and dated >= H.snapshot_from_date is
\* soft-deleted, and every entry dated before it is unchanged.
C34_RollbackRestores ==
  RolledBack =>
    LET S == LastOp.pre
        h == RollbackOf
        o == OrderAsc(entries, LiveTail(entries, h.org, h.snapshot_from_date))
    IN /\ Len(o) = Len(Selected)
       /\ Len(entries) = Len(S) + Len(Selected)
       /\ \A k \in DOMAIN o :
            /\ o[k] = Len(S) + k
            /\ Restores(entries[o[k]], Selected[k])
       /\ \A i \in LiveTail(S, h.org, h.snapshot_from_date) : entries[i].deleted
       /\ \A i \in DOMAIN S :
            (S[i].org = h.org /\ S[i].txn_date < h.snapshot_from_date)
              => entries[i] = S[i]

\* a rollback that soft-deleted a live tail and restored a snapshot holding
\* a mutation item and one more item
C34_Witness ==
  /\ RolledBack
  /\ Len(Selected) >= 2
  /\ \E k \in DOMAIN Selected : Selected[k].type = "mutation"
  /\ LiveTail(LastOp.pre, RollbackOf.org, RollbackOf.snapshot_from_date) # {}

\* ------------------------------------------------------------------ C35
\* the records the last request appended that carry a data_after snapshot
\* written by createHistory
AfterRecords ==
  {k \in DOMAIN Appended :
     Appended[k].action \in
       {"CREATE", "OPNAME", "MUTATION_IN", "MUTATION_OUT", "UPDATE_AFTER"}}

\* C35: the data_after snapshot of a CREATE, COUNT, MUTATION_IN,
\* MUTATION_OUT or UPDATE_AFTER history record lists exactly the live
\* entries of the partition with txn_date >= snapshot_from_date in
\* (txn_date, created_at) order, and the balance recorded for each listed
\* entry equals the balance that entry has in the store once the write has
\* committed, also when the write is backdated before existing entries.
C35_DataAfterSnapshot ==
  (Served /\ LastOp.ok) =>
    \A k \in AfterRecords :
      LET h == Appended[k]
      IN /\ h.data_after # Nil
         /\ Deref(h.data_after)
              = Snapshot(entries, LiveTail(entries, h.org, h.snapshot_from_date))

\* ------------------------------------------------------------------ C36
\* the requests of both handlers are first-stock creates
BothFirstStock ==
  \A p \in Procs : tx[p].pc # "idle" /\ tx[p].req.type = "stok_awal"

\* C36: when two first_stock creates for the same partition run
\* concurrently, at most one of them commits, so the committed partition
\* never holds two live first_stock entries.
C36_OneFirstStockCommits ==
  BothFirstStock =>
    /\ Cardinality({p \in Procs : tx[p].pc = "done" /\ tx[p].ok}) <= 1
    /\ Cardinality(LiveFirstStocks(CommittedView, ConcOrg)) <= 1

\* ------------------------------------------------------------------ C37
\* the last request is a successful update that moved a count entry to a
\* later date
CountMovedLater ==
  /\ UpdateOfCount
  /\ LastOp.pre[LastOp.req.id].txn_date < LastOp.req.date

\* C37: after an update that moves a count entry from old_date to a later
\* new_date commits, every live entry dated in [old_date, new_date)
\* satisfies the delta law (balance = predecessor's balance + amount) or, if
\* it is a count entry, has system_qty equal to its predecessor's balance.
C37_WindowConsistent ==
  CountMovedLater =>
    LET old == LastOp.pre[LastOp.req.id]
        o == LiveSeq(entries, old.org)
    IN \A k \in DOMAIN o :
         LET e == entries[o[k]]
         IN (old.txn_date <= e.txn_date /\ e.txn_date < LastOp.req.date) =>
              IF e.type = "opname"
              THEN e.system_qty = Ptr(PrevBalance(entries, o, k))
              ELSE e.balance = PrevBalance(entries, o, k) + e.amount

\* ------------------------------------------------------------------ C38
\* the last two requests were successful rollbacks of the same history record
RolledBackTwice ==
  /\ Len(ops) >= 2
  /\ LET a == ops[Len(ops) - 1]
         b == ops[Len(ops)]
     IN /\ a.op = "rollback" /\ a.ok
        /\ b.op = "rollback" /\ b.ok
        /\ a.req.id = b.req.id

\* (txn_date, amount, kind, balance, physical_qty) of the live entries of a
\* partition in replay order
LedgerContents(S, org) ==
  LET o == LiveSeq(S, org)
  IN [k \in DOMAIN o |->
        <<S[o[k]].txn_date, S[o[k]].amount, S[o[k]].type, S[o[k]].balance,
          S[o[k]].physical_qty>>]

\* C38: rollback is idempotent on ledger contents: invoking rollback on the
\* same history record twice in succession leaves, after the second call, the
\* same sequence of live (txn_date, amount, kind, balance, physical_qty) in
\* the partition as after the first call.
C38_RollbackIdempotent ==
  RolledBackTwice =>
    \A org \in Orgs : LedgerContents(entries, org) = LedgerContents(LastOp.pre, org)

\* two rollbacks in succession of a record whose snapshot is not empty: the
\* second call soft-deleted the rows the first had restored and inserted
\* fresh ones
C38_Witness ==
  /\ RolledBackTwice
  /\ Selected # <<>>
  /\ Live(LastOp.pre, RollbackOf.org) # {}
  /\ Live(entries, RollbackOf.org) \cap Live(LastOp.pre, RollbackOf.org) = {}

\* ------------------------------------------------------------------ C39
\* the delta law and the assertion law hold at every live entry of the
\* partition: a delta entry's balance is its predecessor's balance plus its
\* amount; a count entry's balance is its physical_qty, its system_qty its
\* predecessor's balance, its difference and amount physical_qty - system_qty
LawsHold(S, org) ==
  LET o == LiveSeq(S, org)
  IN \A k \in DOMAIN o :
       LET e == S[o[k]]
       IN IF e.type = "opname"
          THEN /\ CountSelfConsistent(e)
               /\ e.system_qty = Ptr(PrevBalance(S, o, k))
          ELSE e.balance = PrevBalance(S, o, k) + e.amount

\* the last two requests were a successful create of a delta entry in a
\* partition that was consistent when the request arrived, and a successful
\* delete of the entry that create inserted
CreateThenDelete ==
  /\ Len(ops) >= 2
  /\ LET c == ops[Len(ops) - 1]
         d == ops[Len(ops)]
     IN /\ c.op = "create" /\ c.ok
        /\ LawsHold(c.pre, c.req.org)
        /\ d.op = "delete" /\ d.ok
        /\ d.req.id = c.inv

\* the tables the create of CreateThenDelete started from
BeforeCreate == ops[Len(ops) - 1].pre

\* C39: create followed by delete is a round trip on balances: in a
\* consistent partition, creating a delta entry at any date and then deleting
\* that same entry returns the balance, amount, system_qty and difference of
\* every other live entry of the partition to the values they had before the
\* create.
C39_CreateDeleteRoundTrip ==
  CreateThenDelete =>
    \A i \in Live(BeforeCreate, ops[Len(ops) - 1].req.org) :
      /\ ~entries[i].deleted
      /\ entries[i].balance = BeforeCreate[i].balance
      /\ entries[i].amount = BeforeCreate[i].amount
      /\ entries[i].system_qty = BeforeCreate[i].system_qty
      /\ entries[i].difference = BeforeCreate[i].difference

\* a create and delete around a live count entry whose system_qty the create
\* had changed
C39_Witness ==
  /\ CreateThenDelete
  /\ \E i \in Live(BeforeCreate, ops[Len(ops) - 1].req.org) :
       /\ BeforeCreate[i].type = "opname"
       /\ LastOp.pre[i].system_qty # BeforeCreate[i].system_qty
\* ------------------------------------------------------------------ C40
\* the partitions the last request addresses: the partition named by a
\* create or a count, the source and destination of a mutation, the partition
\* of the entry an update or delete names, the partition of the history
\* record a rollback names
Addressed ==
  CASE LastOp.op \in {"create", "opname"} -> {LastOp.req.org}
    [] LastOp.op = "mutation" -> {LastOp.req.org, LastOp.req.to}
    [] LastOp.op \in {"update", "delete"} -> {LastOp.pre[LastOp.req.id].org}
    [] LastOp.op = "rollback" -> {LastOp.preh[LastOp.req.id].org}

\* C40: partition isolation: create, count, update, delete and rollback
\* change entries and append history records only in the single partition
\* they address, and a mutation only in its source and destination
\* partitions; every entry and balance of every other partition is left
\* unchanged, including the partition holding the other leg of a mutation
\* whose one leg is updated, deleted or rolled back.
C40_PartitionIsolation ==
  (Served /\ LastOp.ok) =>
    /\ \A i \in DOMAIN LastOp.pre :
         LastOp.pre[i].org \notin Addressed => entries[i] = LastOp.pre[i]
    /\ \A i \in DOMAIN entries \ DOMAIN LastOp.pre : entries[i].org \in Addressed
    /\ \A k \in DOMAIN Appended : Appended[k].org \in Addressed

\* one leg of a mutation was updated, deleted or rolled back while the other
\* leg is live in another partition that holds one more live entry
C40_Witness ==
  /\ Served /\ LastOp.ok
  /\ LastOp.op \in {"update", "delete", "rollback"}
  /\ \E i \in AllLive(LastOp.pre) :
       /\ LastOp.pre[i].type = "mutation"
       /\ LastOp.pre[i].org \in Addressed
       /\ entries[i].deleted
       /\ \E j \in AllLive(entries) :
            /\ entries[j].type = "mutation"
            /\ entries[j].ref_id = LastOp.pre[i].ref_id
            /\ entries[j].org \notin Addressed
====
